---------------------------- MODULE Spec2Model ----------------------------
(***************************************************************************)
(* Torch: the operator-splitting time integrator (Torch::run, fullStep,    *)
(* subStep, hydroStep, calculateTimeStep, checkValues) as a state machine. *)
(*                                                                         *)
(* Times are integers counted in ticks.  The integrators' timesteps, tmax, *)
(* dt_max and the checkpoint times are multiples of 4 ticks; the bootstrap *)
(* step dt_max*1.0e-20 is 1 tick: strictly positive and strictly smaller   *)
(* than every other time the program distinguishes.                        *)
(*                                                                         *)
(* A floating-point cell value is tracked by its class:                    *)
(*   "ok"   finite and within its bounds (>= floor, HII in [0,1])          *)
(*   "low"  finite, non-zero, outside its bounds (< floor, HII off [0,1])  *)
(*   "zero" exactly 0 (below a positive floor)                             *)
(*   "nan"  not a number            "inf"  +infinity                       *)
(***************************************************************************)
EXTENDS Integers, Sequences, FiniteSets, TLC

VARIABLES
    pc,                 \* position of Torch::run
    debug,              \* TorchParameters.debug
    cooling_on,         \* TorchParameters.cooling_on
    radiation_on,       \* TorchParameters.radiation_on
    activeComponents,   \* Torch::activeComponents
    currentTime,        \* Grid::currentTime
    deltatime,          \* Grid::deltatime
    steps,              \* Torch::steps
    stepCounter,        \* Torch::stepCounter
    m_isQuitting,       \* Torch::m_isQuitting
    first_time,         \* static bool first_time of Torch::calculateTimeStep
    cpCount,            \* Checkpointer: output times already passed
    dt_nextCheckpoint,  \* local of Torch::run, argument of fullStep
    dt,                 \* local dt of Torch::fullStep
    k,                  \* position in the Strang sweep of fullStep
    cells,              \* the live cells of this rank: U, Q, W, UDOT
    req,                \* what each rank's integrators answer to calculateTimeStep
    polled,             \* the integrators calculateTimeStep has polled in this call
    trace,              \* sub-steps of the current outer step, in order
    integrated,         \* components whose integrate ran in the current outer step
    prep                \* done: integrators whose preTimeStepCalculations ran on the
                        \* Q of the current U; missed: those integrated without it

(* Thermodynamics::rayTrace on every rank of the decomposition *)
VARIABLES
    star,               \* Star: the global index of the star's cell, the wind radius
    rayDEN,             \* Q[DEN] of every live cell at each rayTrace call, by global index
    rpc,                \* position of each rank in preTimeStepCalculations / rayTrace
    ridx,               \* cells of the causal walk each rank has updated
    rsweep,             \* rayTrace calls each rank has returned from
    T,                  \* T[COL_DEN], T[DCOL_DEN] of each rank's cells, ghosts included
    sendq,              \* PartitionManager: the send queue of each rank
    recvq,              \* PartitionManager: the receive queue of each rank
    chan,               \* messages in flight, by <<sender, receiver>>
    tau,                \* the T[COL_DEN] each rank's rate computation read, per live cell
    Tfirst              \* T of each rank when its first rayTrace returned

(* Thermodynamics on the cells of one rank *)
VARIABLES
    tpc,                \* position in the thermodynamics calls of an outer step
    tcell,              \* the cells: Q, U[PRE], T[RATE], T[HEAT], H, UDOT[PRE], T_min
    m_isSubcycling,     \* Thermodynamics::m_isSubcycling
    tdt_max,            \* the dt_max Thermodynamics::calculateTimeStep was called with
    tdt,                \* what Thermodynamics::calculateTimeStep returned
    tstep,              \* the dt of the last Thermodynamics::integrate
    pnew,               \* the pressure of each cell when integrate left its sub-cycle
    tround,             \* outer steps done
    sl                  \* Thermodynamics::softLanding: arguments and result

(* Torch::initialise: the strategies of the hydrodynamics integrator *)
VARIABLES
    ipc,                \* position in Torch::initialise
    param,              \* TorchParameters: riemannSolver, slopeLimiter
    m_riemannSolver,    \* Hydrodynamics: the Riemann solver installed
    m_slopeLimiter,     \* Hydrodynamics: the slope limiter installed
    warnings,           \* Logger: the WARNING lines printed, in order
    initialised         \* the components whose initialise has run, in order

(* snapshot names: formatSuffix and stepIDFromFilename *)
VARIABLES
    fpc,                \* position: a snapshot to write, a restart to read, done
    fprefix,            \* the name of the snapshot up to the underscore
    fext,               \* the extension of the snapshot
    fid,                \* the step ID the snapshot is written with
    fname,              \* TorchParameters::initialConditions, a string of characters
    stepstart           \* Torch::stepstart

(* Torch::fullStep on every rank, and Torch::hydroStep on one cell *)
VARIABLES
    mpi,                \* per rank: position, local dt, values given to MPIW::minimum,
                        \* the dt of each fullStep, currentTime, first_time
    hyd                 \* one cell in hydroStep: position, U, Q, W, UDOT, dt

torchVars == << pc, debug, cooling_on, radiation_on, activeComponents, currentTime,
                deltatime, steps, stepCounter, m_isQuitting, first_time, cpCount,
                dt_nextCheckpoint, dt, k, cells, req, polled, trace, integrated, prep >>

rayVars == << star, rayDEN, rpc, ridx, rsweep, T, sendq, recvq, chan, tau, Tfirst >>

thermoVars == << tpc, tcell, m_isSubcycling, tdt_max, tdt, tstep, pnew, tround, sl >>

initVars == << ipc, param, m_riemannSolver, m_slopeLimiter, warnings, initialised >>

nameVars == << fpc, fprefix, fext, fid, fname, stepstart >>

(* the variables Torch::run and its callees leave alone *)
otherVars == << rayVars, thermoVars, initVars, nameVars, mpi, hyd >>

notRayVars == << torchVars, thermoVars, initVars, nameVars, mpi, hyd >>

notThermoVars == << torchVars, rayVars, initVars, nameVars, mpi, hyd >>

notInitVars == << torchVars, rayVars, thermoVars, nameVars, mpi, hyd >>

notNameVars == << torchVars, rayVars, thermoVars, initVars, mpi, hyd >>

notMpiVars == << torchVars, rayVars, thermoVars, initVars, nameVars, hyd >>

notHydVars == << torchVars, rayVars, thermoVars, initVars, nameVars, mpi >>

vars == << torchVars, rayVars, thermoVars, initVars, nameVars, mpi, hyd >>

-----------------------------------------------------------------------------
(* Bounds of the model *)

MaxSteps == 3
NCells == 2
NRanks == 2
NProcs == 3
LiveCells == 2
NSweeps == 2
NThermoCells == 2
MaxRounds == 2

Cells == 1..NCells
Ranks == 1..NRanks

-----------------------------------------------------------------------------
(* Configuration and program constants *)

tmax == 400000000
dt_max == 200000000
ncheckpoints == 2
BootDt == 1
ThydScale == 100
ThydLimitInv == 1000000

Min(a, b) == IF b < a THEN b ELSE a

SetMin(S) == CHOOSE x \in S : \A y \in S : x <= y

HYDRO == "HYDRO"
THERMO == "THERMO"
RAD == "RAD"
ComponentID == {HYDRO, THERMO, RAD}

(* The timestep every integrator answers lies in (0, dt_max]. *)
HydroDts == {tmax \div 100000000, tmax \div 1000000, dt_max}
RadDts == {tmax \div 100000000, dt_max}
ThermoDts == {tmax \div 100000000, dt_max}


-----------------------------------------------------------------------------
(* FluidState: the class of each tracked component of U, Q, W and the      *)
(* tendency UDOT of each.  A tendency names the class U + dt*UDOT lands in *)
(* ("none": U keeps its class).                                            *)

Fields == {"DEN", "PRE", "VEL", "HII"}

AllOk == [f \in Fields |-> "ok"]
AllZero == [f \in Fields |-> "zero"]
NoTendency == [f \in Fields |-> "none"]

NonFinite(v) == v \in {"nan", "inf"}

(* Q from U and U from Q: a non-finite density poisons every derived value. *)
QfromU(u) ==
    IF NonFinite(u.DEN)
    THEN [DEN |-> u.DEN, PRE |-> "nan", VEL |-> "nan", HII |-> "nan"]
    ELSE u

UfromQ(q) ==
    IF NonFinite(q.DEN)
    THEN [DEN |-> q.DEN, PRE |-> "nan", VEL |-> "nan", HII |-> "nan"]
    ELSE q

(* x < floor replaced by the floor: false for NaN and for +infinity. *)
Floored(v) == IF v \in {"low", "zero"} THEN "ok" ELSE v

(* HII clamped to [0,1]. *)
Clamped(v) == IF v \in {"low", "inf"} THEN "ok" ELSE v

(* velocity set to 0 if non-finite. *)
VelFixed(v) == IF NonFinite(v) THEN "ok" ELSE v

FixRec(x) ==
    [DEN |-> Floored(x.DEN), PRE |-> Floored(x.PRE),
     VEL |-> VelFixed(x.VEL), HII |-> Clamped(x.HII)]

CellQfromU(cell) == [cell EXCEPT !.Q = QfromU(cell.U)]

CellUfromQ(cell) == [cell EXCEPT !.U = UfromQ(cell.Q)]

CellWfromU(cell) == [cell EXCEPT !.W = cell.U]

CellUfromW(cell) == [cell EXCEPT !.U = cell.W]

globalQfromU(cs) == [c \in Cells |-> CellQfromU(cs[c])]

globalUfromQ(cs) == [c \in Cells |-> CellUfromQ(cs[c])]

globalWfromU(cs) == [c \in Cells |-> CellWfromU(cs[c])]

globalUfromW(cs) == [c \in Cells |-> CellUfromW(cs[c])]

fixPrimitives(cs) == [c \in Cells |-> [cs[c] EXCEPT !.Q = FixRec(@)]]

fixSolution(cs) == [c \in Cells |-> [cs[c] EXCEPT !.U = FixRec(@)]]

Landed(u, t) ==
    IF t = "none" THEN u
    ELSE IF u = "nan" \/ t = "nan" THEN "nan"
    ELSE IF u = "inf" THEN "inf"
    ELSE t

(* U <- U + dt*UDOT, then UDOT <- 0 *)
CellAdvanced(cell) ==
    [cell EXCEPT !.U = [f \in Fields |-> Landed(cell.U[f], cell.UDOT[f])],
                 !.UDOT = NoTendency]

advSolution(cs) == [c \in Cells |-> CellAdvanced(cs[c])]

(* The source terms an integrator leaves in UDOT: nothing out of the       *)
(* ordinary, or one component of one cell driven out of its bounds.        *)
Tendencies(f) ==
    CASE f = "DEN" -> {"low", "zero", "nan", "inf"}
      [] f = "PRE" -> {"low", "zero", "nan", "inf"}
      [] f = "VEL" -> {"nan", "inf"}
      [] f = "HII" -> {"low", "nan", "inf"}

IntegratorFields(comp) ==
    CASE comp = HYDRO -> Fields
      [] comp = THERMO -> {"PRE"}
      [] comp = RAD -> {"PRE", "HII"}

UdotChoices(comp) ==
    {[c \in Cells |-> NoTendency]} \cup
    {[c \in Cells |-> IF c = c0 THEN [NoTendency EXCEPT ![f0] = t0] ELSE NoTendency] :
        <<c0, f0, t0>> \in {x \in Cells \X Fields \X {"low", "zero", "nan", "inf"} :
                              x[2] \in IntegratorFields(comp) /\ x[3] \in Tendencies(x[2])}}

(* comp.integrate(dt, fluid); comp.updateSourceTerms(dt, fluid) *)
Integrated(cs, udot) == [c \in Cells |-> [cs[c] EXCEPT !.UDOT = udot[c]]]

-----------------------------------------------------------------------------
(* Torch::checkValues: TRUE when it throws *)

CellIsBad(cell) ==
    \/ \E f \in Fields : cell.U[f] = "nan" \/ cell.U[f] = "inf"
    \/ cell.Q.DEN = "zero"
    \/ cell.Q.PRE = "zero"

checkValues(cs) == \E c \in Cells : CellIsBad(cs[c])

-----------------------------------------------------------------------------
(* Checkpointer(tmax, ncheckpoints): output times j*tmax/ncheckpoints,     *)
(* j = 1..ncheckpoints.  update(t, dt) counts the output times t has       *)
(* reached and caps dt by the distance to the next one.                    *)

OutputTime(j) == j * (tmax \div ncheckpoints)

CountAfterUpdate(t, count) ==
    LET reached == {j \in 1..ncheckpoints : OutputTime(j) <= t}
    IN  IF Cardinality(reached) > count THEN Cardinality(reached) ELSE count

DtAfterUpdate(t, count, dtIn) ==
    IF count < ncheckpoints THEN Min(dtIn, OutputTime(count + 1) - t) ELSE dtIn

(* MPIW::minimum: the collective minimum over the ranks *)
MPIMinimum(x) == SetMin({x[r] : r \in Ranks})

-----------------------------------------------------------------------------
(* Torch::calculateTimeStep *)

FirstTimeKept == TRUE

(* first_time = false *)
FirstTimeAfterCall == FALSE

(* dt = dt_max*1.0e-20 *)
BootstrapDt == BootDt

(* the integrators polled: hydro, radiation if radiation_on, thermo if cooling_on *)
PolledComponents(rad_on, cool_on) ==
    {HYDRO} \cup (IF rad_on THEN {RAD} ELSE {}) \cup (IF cool_on THEN {THERMO} ELSE {})

(* dt_rad and dt_thermo default to dt_hydro *)
DtRad(rq, rad_on) == IF rad_on THEN rq[RAD] ELSE rq[HYDRO]

DtThermo(rq, cool_on) == IF cool_on THEN rq[THERMO] ELSE rq[HYDRO]

LocalDtWithoutThermo(dt_hydro, dt_rad, dt_thermo) == Min(dt_hydro, dt_rad)

(* dt = std::min(std::min(dt_hydro, dt_rad), dt_thermo) *)
LocalDt(dt_hydro, dt_rad, dt_thermo) == Min(Min(dt_hydro, dt_rad), dt_thermo)

RatioTooSmallUnscaled(x) == x <= tmax \div ThydLimitInv

(* 100.0*x/tmax <= 1.0e-6, with both sides multiplied by tmax/100 *)
RatioTooSmall(x) == x <= tmax \div (ThydScale * ThydLimitInv)

(* if (thyd <= 1.0e-6 || thyd <= 1.0e-6 || thyd <= 1.0e-6) *)
GuardFires(thyd, trad, ttherm) ==
    RatioTooSmall(thyd) \/ RatioTooSmall(thyd) \/ RatioTooSmall(thyd)

QuitAfterGuardAlways(dbg, quit, thyd, trad, ttherm) ==
    IF GuardFires(thyd, trad, ttherm) THEN TRUE ELSE quit

(* if (debug) { ... m_isQuitting = true; } *)
QuitAfterGuard(dbg, quit, thyd, trad, ttherm) ==
    IF dbg /\ GuardFires(thyd, trad, ttherm) THEN TRUE ELSE quit

(* the value calculateTimeStep returns (and stores in Grid::deltatime) *)
CalcDt(first, rq, rad_on, cool_on) ==
    IF first
    THEN MPIMinimum([r \in Ranks |-> BootstrapDt])
    ELSE MPIMinimum([r \in Ranks |->
            LocalDt(rq[r][HYDRO], DtRad(rq[r], rad_on), DtThermo(rq[r], cool_on))])

CalcQuit(first, dbg, quit, rq, rad_on, cool_on) ==
    IF first
    THEN quit
    ELSE QuitAfterGuard(dbg, quit,
            MPIMinimum([r \in Ranks |-> rq[r][HYDRO]]),
            MPIMinimum([r \in Ranks |-> DtRad(rq[r], rad_on)]),
            MPIMinimum([r \in Ranks |-> DtThermo(rq[r], cool_on)]))

(* What the integrators of every rank would answer on the current fluid.    *)
(* An integrator that is switched off has no answer (0).                    *)
Requests(rad_on, cool_on) ==
    [Ranks -> {rq \in [ComponentID -> HydroDts \cup RadDts \cup ThermoDts \cup {0}] :
                  /\ rq[HYDRO] \in HydroDts
                  /\ rq[RAD] \in (IF rad_on THEN RadDts ELSE {0})
                  /\ rq[THERMO] \in (IF cool_on THEN ThermoDts ELSE {0})}]

NoRequests == [r \in Ranks |-> [c \in ComponentID |-> 0]]

-----------------------------------------------------------------------------
(* Torch::fullStep *)

StepDtUncapped(dt_nextCheckPoint, dt_calc) == dt_calc

(* double dt = std::min(dt_nextCheckPoint, calculateTimeStep()) *)
StepDt(dt_nextCheckPoint, dt_calc) == Min(dt_nextCheckPoint, dt_calc)

NeverHydroOnly(ncomps) == FALSE

(* if (ncomps == 1) *)
IsHydroOnly(ncomps) == ncomps = 1

NextStepCounterUnwrapped(sc, ncomps) == sc + 1

(* stepCounter = (stepCounter+1)%ncomps *)
NextStepCounter(sc, ncomps) == (sc + 1) % ncomps

SweepIndexAscending(kk, ncomps) == IF kk < ncomps THEN kk ELSE kk - ncomps

(* position k of the sweep -> loop index i: forward i = 0..n-1, then      *)
(* reverse i = n-2..0                                                      *)
SweepIndex(kk, ncomps) == IF kk < ncomps THEN kk ELSE 2 * ncomps - 2 - kk

(* twice the factor of dt: h = (i == ncomps-1) ? 1.0 : 0.5 forward, dt/2.0 reverse *)
TwiceFactor(kk, ncomps) == IF kk = ncomps - 1 THEN 2 ELSE 1

SweepComponentUnrotated(act, i, sc) == act[i + 1]

(* activeComponents[(i+stepCounter)%ncomps] *)
SweepComponent(act, i, sc) == act[((i + sc) % Len(act)) + 1]

HasHeatFluxAlways(kk) == TRUE

(* i == 0 in the forward pass, false in the reverse pass *)
HasHeatFlux(kk) == kk = 0

LastSweepPosition(ncomps) == 2 * ncomps - 2

(* if (cooling_on) thermodynamics.preTimeStepCalculations(fluid);          *)
(* if (radiation_on) radiation.preTimeStepCalculations(fluid);             *)
FullStepPrepared(rad_on, cool_on) ==
    (IF cool_on THEN {THERMO} ELSE {}) \cup (IF rad_on THEN {RAD} ELSE {})

(* if (!hasCalculatedHeatFlux) { globalQfromU; fixPrimitives;              *)
(* comp.preTimeStepCalculations }: the integrators ready when comp.integrate *)
(* is called                                                               *)
PreparedAtIntegrate(done, hasCalculatedHeatFlux, comp) ==
    IF hasCalculatedHeatFlux THEN done ELSE {comp}

(* comp.integrate; comp.updateSourceTerms; advSolution: U moves on and no  *)
(* integrator is ready any more                                            *)
PrepAfterIntegrate(pr, hasCalculatedHeatFlux, comp) ==
    [done |-> {},
     missed |-> IF comp \in PreparedAtIntegrate(pr.done, hasCalculatedHeatFlux, comp)
                THEN pr.missed ELSE pr.missed \cup {comp}]

-----------------------------------------------------------------------------
(* Torch::run *)

(* activeComponents.push_back(...) *)
ActiveList(rad_on, cool_on) ==
    <<HYDRO>> \o (IF cool_on THEN <<THERMO>> ELSE <<>>) \o (IF rad_on THEN <<RAD>> ELSE <<>>)

LoopIgnoresQuit(t, quit) == t < tmax

(* while (fluid.getGrid().currentTime < tmax && !m_isQuitting) *)
LoopContinues(t, quit) == t < tmax /\ ~quit

TimeSubtracted(t, d) == t - d

(* fluid.getGrid().currentTime += fluid.getGrid().deltatime *)
TimeAfterStep(t, d) == t + d

-----------------------------------------------------------------------------
(* Torch::subStep and Torch::hydroStep between their checkValues calls *)

(* globalQfromU; fixPrimitives; comp.preTimeStepCalculations *)
PreStep(cs) == fixPrimitives(globalQfromU(cs))

SubStepCells(cs, hasCalculatedHeatFlux, udot) ==
    LET c1 == IF hasCalculatedHeatFlux THEN cs ELSE PreStep(cs)
    IN  fixSolution(advSolution(Integrated(c1, udot)))

(* hydroStep from globalWfromU to the fixSolution of the predictor *)
HydroPredictorCells(cs, hasCalculatedHeatFlux, udot) ==
    LET c0 == globalWfromU(cs)
        c1 == IF hasCalculatedHeatFlux THEN c0 ELSE PreStep(c0)
    IN  fixSolution(advSolution(Integrated(c1, udot)))

(* hydroStep from the corrector's globalQfromU to its fixSolution *)
HydroCorrectorCells(cs, udot) ==
    fixSolution(advSolution(Integrated(globalUfromW(globalQfromU(cs)), udot)))

-----------------------------------------------------------------------------
(* The column-density sweep: a 1-D grid split into NProcs slabs of          *)
(* LiveCells cells.  On each rank local cell 0 is the left partition ghost, *)
(* 1..LiveCells are the live cells and LiveCells+1 is the right partition   *)
(* ghost.  Lengths are counted in cells and densities in hydrogen masses    *)
(* per cell, so that T[DCOL_DEN] = Q[DEN].                                  *)

RayRanks == 0..(NProcs - 1)
GlobalCells == 0..(NProcs * LiveCells - 1)
LocalCells == 0..(LiveCells + 1)
Live == 1..LiveCells

GlobalIndex(r, c) == r * LiveCells + c - 1

(* Star::Location of the star as rank r sees it; the star sits at the       *)
(* centre of its cell                                                       *)
StarRank(st) == st.cell \div LiveCells

Core(st, r) ==
    IF r = StarRank(st) THEN "HERE"
    ELSE IF StarRank(st) < r THEN "LEFT" ELSE "RIGHT"

Abs(x) == IF x < 0 THEN -x ELSE x

(* distance in cells from the star to local cell c of rank r *)
StarDistance(st, r, c) == Abs(GlobalIndex(r, c) - st.cell)

(* GridCell::neighbourIDs: the upwind neighbour, one cell nearer the star;  *)
(* -1 for the star's own cell                                               *)
NeighbourID(st, r, c) ==
    IF GlobalIndex(r, c) > st.cell THEN c - 1
    ELSE IF GlobalIndex(r, c) < st.cell THEN c + 1
    ELSE -1

(* the cells of S by increasing distance from the star, the lower index     *)
(* first among equals                                                       *)
CausalOrder(st, r, S) ==
    CHOOSE q \in [1..Cardinality(S) -> S] :
        /\ \A i, j \in 1..Cardinality(S) : i # j => q[i] # q[j]
        /\ \A i, j \in 1..Cardinality(S) :
              i < j => \/ StarDistance(st, r, q[i]) < StarDistance(st, r, q[j])
                       \/ /\ StarDistance(st, r, q[i]) = StarDistance(st, r, q[j])
                          /\ q[i] < q[j]

InWind(st, r, c) == st.wind > 0 /\ StarDistance(st, r, c) <= st.wind

CausalWind(st, r) == CausalOrder(st, r, {c \in Live : InWind(st, r, c)})

CausalNonWind(st, r) == CausalOrder(st, r, {c \in Live : ~InWind(st, r, c)})

LeftPartitionCells == << 0 >>
RightPartitionCells == << LiveCells + 1 >>

NoColDen == [COL_DEN |-> 0, DCOL_DEN |-> 0]

RECURSIVE GhostsFilledSwapped(_, _, _)
GhostsFilledSwapped(Tr, ring, q) ==
    IF ring = << >> THEN Tr
    ELSE GhostsFilledSwapped([Tr EXCEPT ![Head(ring)] = [COL_DEN |-> q[2], DCOL_DEN |-> q[1]]],
                             Tail(ring), SubSeq(q, 3, Len(q)))

(* ghost.T[COL_DEN] = getRecvItem(); ghost.T[DCOL_DEN] = getRecvItem(), for *)
(* every ghost of the ring                                                  *)
RECURSIVE GhostsFilled(_, _, _)
GhostsFilled(Tr, ring, q) ==
    IF ring = << >> THEN Tr
    ELSE GhostsFilled([Tr EXCEPT ![Head(ring)] = [COL_DEN |-> q[1], DCOL_DEN |-> q[2]]],
                      Tail(ring), SubSeq(q, 3, Len(q)))

(* addSendItem(cell.T[COL_DEN]); addSendItem(cell.T[DCOL_DEN]) for the live *)
(* cell next to every ghost of the ring (step 1: grid.right, -1: grid.left) *)
RECURSIVE ItemsQueued(_, _, _, _)
ItemsQueued(Tr, ring, step, q) ==
    IF ring = << >> THEN q
    ELSE ItemsQueued(Tr, Tail(ring), step,
                     q \o << Tr[Head(ring) + step].COL_DEN, Tr[Head(ring) + step].DCOL_DEN >>)

-----------------------------------------------------------------------------
(* Thermodynamics::updateColDen and Thermodynamics::rayTrace *)

(* dist2 > 0.95*0.95 *)
FarFromStar(dist) == 100 * 100 * dist * dist > 95 * 95

(* colden[i] of the one upwind neighbour a 1-D cell has *)
NeighbourColDen(Tr, nb) ==
    IF nb # -1 THEN Tr[nb].COL_DEN + Tr[nb].DCOL_DEN ELSE 0

(* w_raga = colden == 0 ? 0 : weight/colden; newcolden = sum of           *)
(* (w_raga/sum_w)*colden while sum_w != 0: with one neighbour of weight 1  *)
(* that is colden itself, and 0 when colden is 0                           *)
NewColDen(colden) == IF colden = 0 THEN 0 ELSE colden

updateColDenOwnCell(Tr, dens, st, r, c) ==
    [Tr EXCEPT ![c] =
        [COL_DEN |-> IF FarFromStar(StarDistance(st, r, c))
                     THEN Tr[c].COL_DEN + Tr[c].DCOL_DEN ELSE 0,
         DCOL_DEN |-> dens[GlobalIndex(r, c)]]]

updateColDen(Tr, dens, st, r, c) ==
    [Tr EXCEPT ![c] =
        [COL_DEN |-> IF FarFromStar(StarDistance(st, r, c))
                     THEN NewColDen(NeighbourColDen(Tr, NeighbourID(st, r, c)))
                     ELSE 0,
         DCOL_DEN |-> dens[GlobalIndex(r, c)]]]

WalkReversed(st, r) ==
    LET w == CausalWind(st, r) \o CausalNonWind(st, r)
    IN  [i \in 1..Len(w) |-> w[Len(w) + 1 - i]]

(* the walk of rayTrace: CausalWind, then CausalNonWind *)
Walk(st, r) == CausalWind(st, r) \o CausalNonWind(st, r)

(* the rank the ghost data comes from *)
ReceivesNever(st, r) == FALSE

(* if (fluid.getStar().core != Star::Location::HERE) *)
Receives(st, r) == Core(st, r) # "HERE"

RecvSource(st, r) == IF Core(st, r) = "LEFT" THEN r - 1 ELSE r + 1

RecvRing(st, r) ==
    IF Core(st, r) = "LEFT" THEN LeftPartitionCells ELSE RightPartitionCells

SendsLeftUnlessEdge(st, r) == ~(r = 0)

(* if (!(rank == 0 || core == LEFT)) and if (!(rank == nProcessors-1 || core == RIGHT)) *)
SendsLeft(st, r) == ~(r = 0 \/ Core(st, r) = "LEFT")

SendsRight(st, r) == ~(r = NProcs - 1 \/ Core(st, r) = "RIGHT")

(* rayTrace runs in fillHeatingArrays before the loop and in the           *)
(* preTimeStepCalculations that opens fullStep; then calculateTimeStep     *)
(* meets every rank in the collective MPIW::minimum                        *)
SweepsBeforeMinimum == 2

(* the rate computations rank r has finished *)
RatesCount(rp, rs, r) == IF rp[r] = "rates" THEN rs[r] - 1 ELSE rs[r]

(* rank r is not held in the collective minimum *)
PastMinimum(rp, rs, r) ==
    rs[r] < SweepsBeforeMinimum \/
    \A q \in RayRanks : RatesCount(rp, rs, q) >= SweepsBeforeMinimum

-----------------------------------------------------------------------------
(* Thermodynamics: rates, soft landing, sub-cycling, timestep.             *)
(* Units: temperature = pressure (mu_inv * R * Q[DEN] = 1); rates and      *)
(* pressures are integers, and the inputs are chosen so that every         *)
(* division the code makes on them is exact.                               *)

thermoHII_Switch == 1
heatingAmplification == 1
pfloor == 10
m_ciec_minT == 1000
temp2pre == 1

(* 0.10*U[PRE]/T[RATE] with T[RATE] = 0: +infinity *)
InfiniteDt == 1000000

Max(a, b) == IF a < b THEN b ELSE a

ThermoCells == 1..NThermoCells

HID == {"FUVH", "IRH", "CRH", "IMLC", "NMLC", "CEHI", "CIEC", "NMC", "RHII", "EUVH", "TOT"}

NoHeating == [i \in HID |-> 0]

(* Fluid::calcTemperature, GridCell::temperature *)
Temperature(pressure) == pressure \div temp2pre

(* farUltraVioletHeating, infraRedHeating, cosmicRayHeating: set by the    *)
(* cell's density, column density and distance from the star               *)
Heating(cell) == cell.fuvh + cell.irh + cell.crh

(* the cooling terms of a neutral (HII = 0) or fully ionised (HII = 1)     *)
(* cell: ne*nn = 0 and HII*(1-HII) = 0 leave neutralMetalLineCooling and   *)
(* collisionalExcitationHI at 0; ne = 0 leaves the ionised terms at 0 and  *)
(* (1-HII) = 0 the neutral-molecular one; collisional-ionisation cooling   *)
(* sets in above m_ciec_minT                                               *)
ionisedMetalLineCooling(cell, temp) == IF cell.HII = 1 THEN cell.cool ELSE 0
neutralMetalLineCooling(cell, temp) == 0
collisionalExcitationHI(cell, temp) == 0
collisionalIonisationEquilibriumCooling(cell, temp) ==
    IF cell.HII = 1 /\ temp > m_ciec_minT THEN cell.cool ELSE 0
neutralMolecularLineCooling(cell, temp) == IF cell.HII = 0 THEN cell.cool ELSE 0

Cooling(cell, temp) ==
    ionisedMetalLineCooling(cell, temp) + neutralMetalLineCooling(cell, temp)
    + collisionalExcitationHI(cell, temp) + collisionalIonisationEquilibriumCooling(cell, temp)
    + neutralMolecularLineCooling(cell, temp)

softLandingSharp(rate, temp, T_min) ==
    IF rate < 0 /\ temp <= T_min + 200 THEN 0 ELSE rate

(* Thermodynamics::softLanding *)
softLanding(rate, temp, T_min) ==
    IF rate < 0
    THEN IF temp <= T_min THEN 0
         ELSE IF temp <= T_min + 200 THEN (rate * (temp - T_min)) \div 200
         ELSE rate
    ELSE rate

BelowSwitch(cell) == cell.ADV < thermoHII_Switch

preTimeStepCellZeroingH(cell) ==
    IF BelowSwitch(cell)
    THEN [cell EXCEPT !.RATE = 0, !.H = NoHeating]
    ELSE LET temp == Temperature(cell.PRE)
             rate == Heating(cell) - Cooling(cell, temp)
         IN  [cell EXCEPT !.HEAT = Heating(cell),
                          !.RATE = heatingAmplification * softLanding(rate, temp, cell.T_min),
                          !.evals = @ + 1]

(* Thermodynamics::preTimeStepCalculations on one cell of CausalNonWind *)
preTimeStepCell(cell) ==
    IF BelowSwitch(cell)
    THEN [cell EXCEPT !.RATE = 0]
    ELSE LET temp == Temperature(cell.PRE)
             rate == Heating(cell) - Cooling(cell, temp)
         IN  [cell EXCEPT !.HEAT = Heating(cell),
                          !.RATE = heatingAmplification * softLanding(rate, temp, cell.T_min),
                          !.evals = @ + 1]

(* std::abs(0.10*cell.U[PRE] / cell.T[RATE]) *)
SubcycleDt(cell) ==
    IF cell.RATE = 0 THEN InfiniteDt ELSE Abs(cell.UPRE) \div (10 * Abs(cell.RATE))

(* rate2dpre = std::min(dt, dti)*(cell.heatCapacityRatio - 1.0) *)
Rate2dpre(cell, dtime) == Min(dtime, SubcycleDt(cell)) * cell.gm1

(* "Fix pressure and temperature": the pressure floor of the cell *)
FixedPressure(cell, pressure) ==
    IF pressure < pfloor \/ Temperature(pressure) < cell.T_min
    THEN Max(cell.T_min * temp2pre, pfloor)
    ELSE pressure

(* nsteps = dtdti - (int)dtdti > 0 ? (int)(dtdti + 1.0) : (int)(dtdti + 0.5) *)
NSteps(dtime, dti) == (dtime + dti - 1) \div dti

(* the rate of one pass of the sub-cycle, with the frozen T[HEAT] *)
SubcycleRate(cell, temp) ==
    heatingAmplification * softLanding(cell.HEAT - Cooling(cell, temp), temp, cell.T_min)

(* the sub-cycling loop: n passes from pressure p *)
RECURSIVE Subcycled(_, _, _, _)
Subcycled(cell, p, n, rate2dpre) ==
    IF n = 0 THEN p
    ELSE Subcycled(cell,
                   FixedPressure(cell, p + SubcycleRate(cell, Temperature(p)) * rate2dpre),
                   n - 1, rate2dpre)

(* the passes of the sub-cycling loop: nsteps - 1 when dt > dti *)
SubcyclePasses(cell, dtime) ==
    IF dtime > SubcycleDt(cell) THEN NSteps(dtime, SubcycleDt(cell)) - 1 ELSE 0

(* the pressure integrate has reached for the cell when it writes T[RATE] *)
SubcycledPressure(cell, dtime) ==
    Subcycled(cell,
              FixedPressure(cell, cell.PRE + cell.RATE * Rate2dpre(cell, dtime)),
              SubcyclePasses(cell, dtime), Rate2dpre(cell, dtime))

(* Thermodynamics::integrate (sub-cycling enabled) on one cell of CausalNonWind *)
integrateCell(cell, dtime) ==
    IF BelowSwitch(cell)
    THEN [cell EXCEPT !.H = NoHeating, !.RATE = 0]
    ELSE LET rate == (SubcycledPressure(cell, dtime) - cell.PRE) \div Rate2dpre(cell, dtime)
         IN  [cell EXCEPT !.RATE = rate,
                          !.H = [@ EXCEPT !.TOT = rate],
                          !.evals = @ + SubcyclePasses(cell, dtime)]

fillHeatingCellWritingRate(cell) == preTimeStepCell(cell)

(* Thermodynamics::fillHeatingArrays on one cell of CausalNonWind *)
fillHeatingCell(cell) ==
    IF BelowSwitch(cell)
    THEN [cell EXCEPT !.H = NoHeating]
    ELSE LET temp == Temperature(cell.PRE)
         IN  [cell EXCEPT
                !.H = [@ EXCEPT !.FUVH = cell.fuvh, !.IRH = cell.irh, !.CRH = cell.crh,
                                !.IMLC = -ionisedMetalLineCooling(cell, temp),
                                !.NMLC = -neutralMetalLineCooling(cell, temp),
                                !.CEHI = -collisionalExcitationHI(cell, temp),
                                !.CIEC = -collisionalIonisationEquilibriumCooling(cell, temp),
                                !.NMC = -neutralMolecularLineCooling(cell, temp),
                                !.TOT = @ + cell.H.RHII + cell.H.EUVH],
                !.evals = @ + 1]

updateSourceCellKeepingRate(cell) == [cell EXCEPT !.UDOT = @ + cell.RATE]

(* Thermodynamics::updateSourceTerms on one cell of CausalNonWind *)
updateSourceCell(cell) ==
    [cell EXCEPT !.UDOT = @ + cell.RATE, !.RATE = 0, !.HEAT = 0]

TenFracIgnoringSubcycling(sub) == 1

(* ten times frac: frac = m_isSubcycling ? 1.0 : 0.1 *)
TenFrac(sub) == IF sub THEN 10 ELSE 1

(* dti = std::abs(frac*cell.U[PRE]/cell.T[RATE]) *)
CellDt(cell, sub) == (TenFrac(sub) * Abs(cell.UPRE)) \div (10 * Abs(cell.RATE))

(* Thermodynamics::calculateTimeStep: over every cell of the grid *)
RECURSIVE ThermoTimeStep(_, _, _, _)
ThermoTimeStep(cs, sub, c, dtSoFar) ==
    IF c > NThermoCells THEN dtSoFar
    ELSE ThermoTimeStep(cs, sub, c + 1,
            IF cs[c].RATE # 0 /\ CellDt(cs[c], sub) < dtSoFar
            THEN CellDt(cs[c], sub) ELSE dtSoFar)

-----------------------------------------------------------------------------
(* The state after Torch::initialise *)

InitialCell == [U |-> AllOk, Q |-> AllOk, W |-> AllZero, UDOT |-> NoTendency]

(* no sweep under way: every rank idle on an empty grid *)
RayParked ==
    /\ star = [cell |-> 0, wind |-> 0]
    /\ rayDEN = [n \in 1..NSweeps |-> [g \in GlobalCells |-> 1]]
    /\ rpc = [r \in RayRanks |-> "done"]
    /\ ridx = [r \in RayRanks |-> 0]
    /\ rsweep = [r \in RayRanks |-> 0]
    /\ T = [r \in RayRanks |-> [c \in LocalCells |-> NoColDen]]
    /\ sendq = [r \in RayRanks |-> << >>]
    /\ recvq = [r \in RayRanks |-> << >>]
    /\ chan = [e \in RayRanks \X RayRanks |-> << >>]
    /\ tau = [r \in RayRanks |-> [c \in Live |-> -1]]
    /\ Tfirst = [r \in RayRanks |-> [c \in LocalCells |-> NoColDen]]

TorchInit ==
    /\ pc = "start"
    /\ debug \in BOOLEAN
    /\ cooling_on \in BOOLEAN
    /\ radiation_on \in BOOLEAN
    /\ activeComponents = << >>
    /\ currentTime = 0
    /\ deltatime = 0
    /\ steps = 0
    /\ stepCounter = 0
    /\ m_isQuitting = FALSE
    /\ first_time = TRUE
    /\ cpCount = 0
    /\ dt_nextCheckpoint = dt_max
    /\ dt = 0
    /\ k = 0
    /\ cells = [c \in Cells |-> InitialCell]
    /\ req = NoRequests
    /\ polled = {}
    /\ trace = << >>
    /\ integrated = << >>
    /\ prep = [done |-> {}, missed |-> {}]

(* a cell of the grid as Thermodynamics sees it, before any rate is computed *)
ThermoCell(wind, ADV, HII, PRE, UPRE, gm1, fuvh, irh, crh, cool) ==
    [wind |-> wind, ADV |-> ADV, HII |-> HII, PRE |-> PRE, UPRE |-> UPRE, gm1 |-> gm1,
     T_min |-> 100, fuvh |-> fuvh, irh |-> irh, crh |-> crh, cool |-> cool,
     RATE |-> 0, HEAT |-> 0, H |-> NoHeating, UDOT |-> 0, evals |-> 0]

(* no call of softLanding under way *)
SoftLandingParked ==
    sl = [rate |-> 0, temp |-> 0, T_min |-> 0, result |-> 0, called |-> FALSE]

(* no operation on the cells under way *)
ThermoIdle ==
    /\ tpc = "done"
    /\ tcell = [c \in ThermoCells |-> ThermoCell(TRUE, 0, 0, 0, 0, 1, 0, 0, 0, 0)]
    /\ m_isSubcycling = FALSE
    /\ tdt_max = 0
    /\ tdt = 0
    /\ tstep = 0
    /\ pnew = [c \in ThermoCells |-> 0]
    /\ tround = 0

(* no thermodynamics call under way *)
ThermoParked == ThermoIdle /\ SoftLandingParked

(* Torch::initialise has run with the default strategies *)
InitParked ==
    /\ ipc = "done"
    /\ param = [riemannSolver |-> "default", slopeLimiter |-> "default"]
    /\ m_riemannSolver = "default"
    /\ m_slopeLimiter = "default"
    /\ warnings = << >>
    /\ initialised = << >>

(* no snapshot name under way *)
NameParked ==
    /\ fpc = "done"
    /\ fprefix = << >>
    /\ fext = << >>
    /\ fid = 0
    /\ fname = << >>
    /\ stepstart = 0

(* no rank in fullStep *)
MpiParked ==
    mpi = [pc |-> [r \in Ranks |-> "done"], local |-> [r \in Ranks |-> 0],
           given |-> [r \in Ranks |-> << >>], dts |-> [r \in Ranks |-> << >>],
           time |-> [r \in Ranks |-> 0], first |-> [r \in Ranks |-> FALSE],
           debug |-> FALSE, quit |-> [r \in Ranks |-> FALSE],
           gv |-> [r \in Ranks |-> << >>], calls |-> [r \in Ranks |-> << >>]]

(* no cell in hydroStep *)
HydParked ==
    hyd = [pc |-> "done", U |-> 0, Q |-> 0, W |-> 0, UDOT |-> 0, dt |-> 0,
           U0 |-> 0, Qhalf |-> 0]

Init == TorchInit /\ RayParked /\ ThermoParked /\ InitParked /\ NameParked
        /\ MpiParked /\ HydParked

(* Torch::run up to the while loop *)
RunStart ==
    /\ pc = "start"
    /\ cells' = fixPrimitives(globalQfromU(cells))
    /\ cpCount' = CountAfterUpdate(currentTime, cpCount)
    /\ activeComponents' = ActiveList(radiation_on, cooling_on)
    /\ pc' = "loop"
    /\ UNCHANGED << debug, cooling_on, radiation_on, currentTime, deltatime, steps,
                    stepCounter, m_isQuitting, first_time, dt_nextCheckpoint, dt, k,
                    req, polled, trace, integrated >>
    /\ UNCHANGED << prep, otherVars >>

(* the loop test passes: checkpointer.update, snapshot if due *)
LoopEnter ==
    /\ pc = "loop"
    /\ LoopContinues(currentTime, m_isQuitting)
    /\ steps < MaxSteps
    /\ cpCount' = CountAfterUpdate(currentTime, cpCount)
    /\ dt_nextCheckpoint' = DtAfterUpdate(currentTime, cpCount', dt_max)
    /\ pc' = "fullStep"
    /\ UNCHANGED << debug, cooling_on, radiation_on, activeComponents, currentTime,
                    deltatime, steps, stepCounter, m_isQuitting, first_time, dt, k,
                    cells, req, polled, trace, integrated >>
    /\ UNCHANGED << prep, otherVars >>

(* the loop test fails: final snapshot, barrier, return *)
LoopExit ==
    /\ pc = "loop"
    /\ ~LoopContinues(currentTime, m_isQuitting)
    /\ pc' = "done"
    /\ UNCHANGED << debug, cooling_on, radiation_on, activeComponents, currentTime,
                    deltatime, steps, stepCounter, m_isQuitting, first_time, cpCount,
                    dt_nextCheckpoint, dt, k, cells, req, polled, trace, integrated >>
    /\ UNCHANGED << prep, otherVars >>

(* Torch::fullStep up to the first sub-step, Torch::calculateTimeStep included *)
FullStepBegin ==
    /\ pc = "fullStep"
    /\ \E rq \in Requests(radiation_on, cooling_on) :
        /\ req' = rq
        /\ polled' = IF first_time THEN {} ELSE PolledComponents(radiation_on, cooling_on)
        /\ deltatime' = CalcDt(first_time, rq, radiation_on, cooling_on)
        /\ m_isQuitting' = CalcQuit(first_time, debug, m_isQuitting, rq, radiation_on, cooling_on)
        /\ dt' = StepDt(dt_nextCheckpoint, deltatime')
    /\ first_time' = FirstTimeAfterCall
    /\ cells' = fixPrimitives(globalQfromU(cells))
    /\ stepCounter' = IF IsHydroOnly(Len(activeComponents))
                      THEN stepCounter
                      ELSE NextStepCounter(stepCounter, Len(activeComponents))
    /\ k' = 0
    /\ trace' = << >>
    /\ integrated' = << >>
    /\ prep' = [done |-> FullStepPrepared(radiation_on, cooling_on), missed |-> {}]
    /\ pc' = "step"
    /\ UNCHANGED << debug, cooling_on, radiation_on, activeComponents, currentTime,
                    steps, cpCount, dt_nextCheckpoint >>
    /\ UNCHANGED otherVars

(* Torch::hydroStep(dt, true), called when HYDRO is the only component:    *)
(* checkValues and the predictor                                           *)
HydroPredictor ==
    /\ pc = "step"
    /\ IsHydroOnly(Len(activeComponents))
    /\ IF checkValues(cells)
       THEN /\ pc' = "fatal"
            /\ UNCHANGED << cells, integrated, prep >>
       ELSE \E udot \in UdotChoices(HYDRO) :
            /\ cells' = HydroPredictorCells(cells, TRUE, udot)
            /\ integrated' = Append(integrated, HYDRO)
            /\ prep' = PrepAfterIntegrate(prep, TRUE, HYDRO)
            /\ pc' = "corrector"
    /\ req' = NoRequests
    /\ polled' = {}
    /\ UNCHANGED << debug, cooling_on, radiation_on, activeComponents, currentTime,
                    deltatime, steps, stepCounter, m_isQuitting, first_time, cpCount,
                    dt_nextCheckpoint, dt, k, trace >>
    /\ UNCHANGED otherVars

(* Torch::hydroStep: the corrector; hydroStep ends with fixSolution and    *)
(* returns to fullStep                                                     *)
HydroCorrector ==
    /\ pc = "corrector"
    /\ \E udot \in UdotChoices(HYDRO) :
        /\ cells' = HydroCorrectorCells(cells, udot)
        /\ trace' = Append(trace, [op |-> "hydroStep", comp |-> HYDRO, h2 |-> 2])
        /\ integrated' = Append(integrated, HYDRO)
        /\ pc' = "ret"
    /\ UNCHANGED << debug, cooling_on, radiation_on, activeComponents, currentTime,
                    deltatime, steps, stepCounter, m_isQuitting, first_time, cpCount,
                    dt_nextCheckpoint, dt, k, req, polled >>
    /\ UNCHANGED << prep, otherVars >>

(* one Torch::subStep of the Strang sweep of fullStep, from its first      *)
(* checkValues to its last                                                 *)
SubStep ==
    /\ pc = "step"
    /\ ~IsHydroOnly(Len(activeComponents))
    /\ LET n == Len(activeComponents)
           i == SweepIndex(k, n)
           comp == SweepComponent(activeComponents, i, stepCounter)
       IN  IF checkValues(cells)
           THEN /\ pc' = "fatal"
                /\ UNCHANGED << cells, trace, integrated, k, prep >>
           ELSE \E udot \in UdotChoices(comp) :
                /\ cells' = SubStepCells(cells, HasHeatFlux(k), udot)
                /\ trace' = Append(trace, [op |-> "subStep", comp |-> comp,
                                           h2 |-> TwiceFactor(k, n)])
                /\ integrated' = Append(integrated, comp)
                /\ prep' = PrepAfterIntegrate(prep, HasHeatFlux(k), comp)
                /\ IF checkValues(cells')
                   THEN pc' = "fatal" /\ k' = k
                   ELSE IF k = LastSweepPosition(n)
                        THEN pc' = "ret" /\ k' = k
                        ELSE pc' = "step" /\ k' = k + 1
    /\ req' = NoRequests
    /\ polled' = {}
    /\ UNCHANGED << debug, cooling_on, radiation_on, activeComponents, currentTime,
                    deltatime, steps, stepCounter, m_isQuitting, first_time, cpCount,
                    dt_nextCheckpoint, dt >>
    /\ UNCHANGED otherVars

(* fullStep returns dt: deltatime = dt; currentTime += deltatime; ++steps *)
AdvanceTime ==
    /\ pc = "ret"
    /\ deltatime' = dt
    /\ currentTime' = TimeAfterStep(currentTime, dt)
    /\ steps' = steps + 1
    /\ pc' = "loop"
    /\ UNCHANGED << debug, cooling_on, radiation_on, activeComponents, stepCounter,
                    m_isQuitting, first_time, cpCount, dt_nextCheckpoint, dt, k, cells,
                    req, polled, trace, integrated >>
    /\ UNCHANGED << prep, otherVars >>

(* the quit flag raised from outside the integrator *)
ExternalQuit ==
    /\ pc \in {"loop", "fullStep", "step", "corrector", "ret"}
    /\ ~m_isQuitting
    /\ m_isQuitting' = TRUE
    /\ UNCHANGED << pc, debug, cooling_on, radiation_on, activeComponents, currentTime,
                    deltatime, steps, stepCounter, first_time, cpCount,
                    dt_nextCheckpoint, dt, k, cells, req, polled, trace, integrated >>
    /\ UNCHANGED << prep, otherVars >>

Next ==
    \/ RunStart
    \/ LoopEnter
    \/ LoopExit
    \/ FullStepBegin
    \/ HydroPredictor
    \/ HydroCorrector
    \/ SubStep
    \/ AdvanceTime
    \/ ExternalQuit

Spec == Init /\ [][Next]_vars

-----------------------------------------------------------------------------
(* The column-density sweep on every rank: each rank calls                 *)
(* fillHeatingArrays / preTimeStepCalculations NSweeps times on the same Q *)

(* the stepper at rest while the sweep is looked at on its own *)
TorchParked ==
    /\ TorchInit
    /\ ~debug
    /\ ~cooling_on
    /\ ~radiation_on

(* Q[DEN] of the live cells, in hydrogen masses per cell, at the n-th      *)
(* rayTrace: the same at every call, or changed by the steps in between    *)
DensityProfiles ==
    {[n \in 1..NSweeps |-> [g \in GlobalCells |-> 1]]} \cup
    {[n \in 1..NSweeps |-> [g \in GlobalCells |-> 1 + (g % 3)]]} \cup
    {[n \in 1..NSweeps |-> [g \in GlobalCells |-> 1 + ((g + n) % 3)]]}

RayInit ==
    /\ star \in [cell : GlobalCells, wind : {0, 1}]
    /\ rayDEN \in DensityProfiles
    /\ rpc = [r \in RayRanks |-> "begin"]
    /\ ridx = [r \in RayRanks |-> 0]
    /\ rsweep = [r \in RayRanks |-> 0]
    /\ T = [r \in RayRanks |-> [c \in LocalCells |-> NoColDen]]
    /\ sendq = [r \in RayRanks |-> << >>]
    /\ recvq = [r \in RayRanks |-> << >>]
    /\ chan = [e \in RayRanks \X RayRanks |-> << >>]
    /\ tau = [r \in RayRanks |-> [c \in Live |-> -1]]
    /\ Tfirst = [r \in RayRanks |-> [c \in LocalCells |-> NoColDen]]

InitRay == TorchParked /\ RayInit /\ ThermoParked /\ InitParked /\ NameParked
           /\ MpiParked /\ HydParked

(* rayTrace on the rank that holds the star: resetBuffer, nothing to receive *)
RayStart(r) ==
    /\ rpc[r] = "begin"
    /\ PastMinimum(rpc, rsweep, r)
    /\ ~Receives(star, r)
    /\ sendq' = [sendq EXCEPT ![r] = << >>]
    /\ recvq' = [recvq EXCEPT ![r] = << >>]
    /\ ridx' = [ridx EXCEPT ![r] = 0]
    /\ rpc' = [rpc EXCEPT ![r] = "walk"]
    /\ UNCHANGED << star, rayDEN, rsweep, T, chan, tau, Tfirst, notRayVars >>

(* rayTrace on any other rank: resetBuffer, the blocking recvData from the *)
(* neighbour on the star's side, the ghost ring filled from the items      *)
RayRecv(r) ==
    /\ rpc[r] = "begin"
    /\ PastMinimum(rpc, rsweep, r)
    /\ Receives(star, r)
    /\ LET e == << RecvSource(star, r), r >>
           ring == RecvRing(star, r)
       IN  /\ chan[e] # << >>
           /\ chan' = [chan EXCEPT ![e] = Tail(@)]
           /\ T' = [T EXCEPT ![r] = GhostsFilled(@, ring, Head(chan[e]))]
           /\ recvq' = [recvq EXCEPT ![r] =
                            SubSeq(Head(chan[e]), 2 * Len(ring) + 1, Len(Head(chan[e])))]
    /\ sendq' = [sendq EXCEPT ![r] = << >>]
    /\ ridx' = [ridx EXCEPT ![r] = 0]
    /\ rpc' = [rpc EXCEPT ![r] = "walk"]
    /\ UNCHANGED << star, rayDEN, rsweep, tau, Tfirst, notRayVars >>

(* updateColDen on the next cell of the walk *)
RayUpdate(r) ==
    /\ rpc[r] = "walk"
    /\ ridx[r] < Len(Walk(star, r))
    /\ T' = [T EXCEPT ![r] = updateColDen(@, rayDEN[rsweep[r] + 1], star, r, Walk(star, r)[ridx[r] + 1])]
    /\ ridx' = [ridx EXCEPT ![r] = @ + 1]
    /\ rpc' = [rpc EXCEPT ![r] = IF ridx[r] + 1 = Len(Walk(star, r)) THEN "send" ELSE "walk"]
    /\ UNCHANGED << star, rayDEN, rsweep, sendq, recvq, chan, tau, Tfirst, notRayVars >>

(* the two sends that end rayTrace; sendData empties the send queue *)
RaySend(r) ==
    /\ rpc[r] = "send"
    /\ LET toLeft == ItemsQueued(T[r], LeftPartitionCells, 1, sendq[r])
           qL == IF SendsLeft(star, r) THEN << >> ELSE sendq[r]
           toRight == ItemsQueued(T[r], RightPartitionCells, -1, qL)
           qR == IF SendsRight(star, r) THEN << >> ELSE qL
       IN  /\ chan' = [e \in RayRanks \X RayRanks |->
                         IF SendsLeft(star, r) /\ e = << r, r - 1 >> THEN Append(chan[e], toLeft)
                         ELSE IF SendsRight(star, r) /\ e = << r, r + 1 >> THEN Append(chan[e], toRight)
                         ELSE chan[e]]
           /\ sendq' = [sendq EXCEPT ![r] = qR]
    /\ rsweep' = [rsweep EXCEPT ![r] = @ + 1]
    /\ Tfirst' = IF rsweep[r] = 0 THEN [Tfirst EXCEPT ![r] = T[r]] ELSE Tfirst
    /\ rpc' = [rpc EXCEPT ![r] = "rates"]
    /\ UNCHANGED << star, rayDEN, ridx, T, recvq, tau, notRayVars >>

(* the loop over CausalNonWind that follows rayTrace: tau = T[COL_DEN] *)
RayRates(r) ==
    /\ rpc[r] = "rates"
    /\ tau' = [tau EXCEPT ![r] =
                  [c \in Live |-> IF InWind(star, r, c) THEN tau[r][c] ELSE T[r][c].COL_DEN]]
    /\ rpc' = [rpc EXCEPT ![r] = IF rsweep[r] < NSweeps THEN "begin" ELSE "done"]
    /\ UNCHANGED << star, rayDEN, ridx, rsweep, T, sendq, recvq, chan, Tfirst, notRayVars >>

NextRay ==
    \E r \in RayRanks :
        \/ RayStart(r)
        \/ RayRecv(r)
        \/ RayUpdate(r)
        \/ RaySend(r)
        \/ RayRates(r)

SpecRay == InitRay /\ [][NextRay]_vars

-----------------------------------------------------------------------------
(* Thermodynamics over the outer steps of Torch::run, on one rank *)

(* the cells a run starts from: hot ionised gas that cools, neutral gas in  *)
(* the landing zone above T_min, heated gas, gas whose energy is mostly     *)
(* kinetic, gas below the switch, a cell of the wind                        *)
ThermoInputs ==
    { ThermoCell(FALSE, 1, 1, 4000, 4000, 1, 0, 0, 40, 220),
      ThermoCell(FALSE, 1, 0, 200, 200, 1, 0, 0, 20, 40),
      ThermoCell(FALSE, 1, 0, 200, 200, 2, 0, 0, 20, 40),
      ThermoCell(FALSE, 1, 0, 400, 400, 1, 30, 10, 20, 20),
      ThermoCell(FALSE, 1, 0, 400, 4000, 1, 0, 0, 20, 120),
      ThermoCell(FALSE, 0, 0, 400, 400, 1, 30, 10, 20, 20),
      ThermoCell(TRUE, 1, 1, 4000, 4000, 1, 0, 0, 40, 220) }

(* the dt_max a run is configured with *)
ThermoDtMax == {4, 16}

(* the dt an integrate call is made with *)
IntegrateDts == {1, 2, 3, 4}

ThermoInit ==
    /\ tpc = "fill"
    /\ tcell \in [ThermoCells -> ThermoInputs]
    /\ m_isSubcycling \in BOOLEAN
    /\ tdt_max \in ThermoDtMax
    /\ tdt = 0
    /\ tstep = 0
    /\ pnew = [c \in ThermoCells |-> 0]
    /\ tround = 0
    /\ SoftLandingParked

InitThermo == TorchParked /\ RayParked /\ ThermoInit /\ InitParked /\ NameParked
              /\ MpiParked /\ HydParked

(* Torch::run: thermodynamics.fillHeatingArrays before a snapshot is printed *)
ThermoFill ==
    /\ tpc = "fill"
    /\ tcell' = [c \in ThermoCells |->
                  IF tcell[c].wind THEN tcell[c] ELSE fillHeatingCell(tcell[c])]
    /\ tpc' = "pre"
    /\ UNCHANGED << m_isSubcycling, tdt_max, tdt, tstep, pnew, tround, sl, notThermoVars >>

(* Torch::run: print_now is false, the outer step starts without a snapshot *)
ThermoNoPrint ==
    /\ tpc = "fill"
    /\ tround > 0
    /\ tpc' = "pre"
    /\ UNCHANGED << tcell, m_isSubcycling, tdt_max, tdt, tstep, pnew, tround, sl,
                    notThermoVars >>

(* Torch::fullStep: thermodynamics.preTimeStepCalculations *)
ThermoPreTimeStep ==
    /\ tpc = "pre"
    /\ tcell' = [c \in ThermoCells |->
                  IF tcell[c].wind THEN tcell[c] ELSE preTimeStepCell(tcell[c])]
    /\ tpc' = "dt"
    /\ UNCHANGED << m_isSubcycling, tdt_max, tdt, tstep, pnew, tround, sl, notThermoVars >>

(* Torch::calculateTimeStep: thermodynamics.calculateTimeStep(dt_max) *)
ThermoCalculateTimeStep ==
    /\ tpc = "dt"
    /\ tdt' = ThermoTimeStep(tcell, m_isSubcycling, 1, tdt_max)
    /\ tpc' = "int"
    /\ UNCHANGED << tcell, m_isSubcycling, tdt_max, tstep, pnew, tround, sl, notThermoVars >>

(* Torch::subStep: thermodynamics.integrate(dt) *)
ThermoIntegrate ==
    /\ tpc = "int"
    /\ \E dtime \in IntegrateDts :
        /\ dtime <= tdt
        /\ tstep' = dtime
        /\ IF m_isSubcycling
           THEN /\ tcell' = [c \in ThermoCells |->
                               IF tcell[c].wind THEN tcell[c]
                               ELSE integrateCell(tcell[c], dtime)]
                /\ pnew' = [c \in ThermoCells |->
                               IF tcell[c].wind \/ BelowSwitch(tcell[c]) THEN 0
                               ELSE SubcycledPressure(tcell[c], dtime)]
           ELSE UNCHANGED << tcell, pnew >>
    /\ tpc' = "upd"
    /\ UNCHANGED << m_isSubcycling, tdt_max, tdt, tround, sl, notThermoVars >>

(* Torch::subStep: thermodynamics.updateSourceTerms *)
ThermoUpdateSourceTerms ==
    /\ tpc = "upd"
    /\ tcell' = [c \in ThermoCells |->
                  IF tcell[c].wind THEN tcell[c] ELSE updateSourceCell(tcell[c])]
    /\ tpc' = "hydro"
    /\ UNCHANGED << m_isSubcycling, tdt_max, tdt, tstep, pnew, tround, sl, notThermoVars >>

(* the hydrodynamics of the outer step: UDOT is consumed, the tracer Q[ADV] *)
(* of one cell may cross the switch                                         *)
ThermoHydro ==
    /\ tpc = "hydro"
    /\ \E crossing \in {0} \cup ThermoCells :
        tcell' = [c \in ThermoCells |->
                    [tcell[c] EXCEPT !.ADV = IF c = crossing THEN 1 - @ ELSE @,
                                     !.UDOT = 0, !.evals = 0]]
    /\ tround' = tround + 1
    /\ tpc' = IF tround + 1 < MaxRounds THEN "fill" ELSE "done"
    /\ UNCHANGED << m_isSubcycling, tdt_max, tdt, tstep, pnew, sl, notThermoVars >>

NextThermo ==
    \/ ThermoFill
    \/ ThermoNoPrint
    \/ ThermoPreTimeStep
    \/ ThermoCalculateTimeStep
    \/ ThermoIntegrate
    \/ ThermoUpdateSourceTerms
    \/ ThermoHydro

SpecThermo == InitThermo /\ [][NextThermo]_vars

-----------------------------------------------------------------------------
(* Properties of the composite stepper *)

(* FullStepBegin has just run: calculateTimeStep has returned and no       *)
(* sub-step has started yet                                                *)
AfterCalculateTimeStep == pc = "step" /\ req # NoRequests

(* the smallest timestep any active integrator of any rank asks for *)
RequestedMin ==
    SetMin({req[r][c] : r \in Ranks, c \in PolledComponents(radiation_on, cooling_on)})

(* C1: when a fullStep with n >= 2 components returns it has made exactly  *)
(* 2n-1 sub-steps, with dt factors 1/2 (n-1 times), 1, 1/2 (n-1 times),    *)
(* the forward pass on active[(i+stepCounter) mod n] for i = 0..n-1 and    *)
(* the reverse pass on the same components in reverse order.               *)
C1_StrangPalindrome ==
    (pc = "ret" /\ Len(activeComponents) >= 2) =>
        LET n == Len(activeComponents)
        IN  /\ Len(trace) = 2 * n - 1
            /\ \A j \in 1..(2 * n - 1) :
                   /\ trace[j].op = "subStep"
                   /\ trace[j].h2 = (IF j = n THEN 2 ELSE 1)
            /\ \A j \in 1..n :
                   trace[j].comp = activeComponents[((j - 1 + stepCounter) % n) + 1]
            /\ \A j \in 1..(n - 1) : trace[2 * n - j].comp = trace[j].comp

C1_Witness ==
    /\ pc = "ret"
    /\ Len(activeComponents) = 3
    /\ stepCounter = 2
    /\ Len(trace) = 5

(* C2 as stated: in every outer step the dt of fullStep is the minimum of  *)
(* dt_checkpoint and the smallest timestep the active integrators of all   *)
(* ranks ask for.                                                          *)
C2_EveryStepIsRequestedMin ==
    AfterCalculateTimeStep => dt = Min(dt_nextCheckpoint, RequestedMin)

(* C2 amended: that holds in every outer step but the first of the run;    *)
(* in the first one dt is the minimum of dt_checkpoint and dt_max*1e-20.   *)
C2_LaterStepsAreRequestedMin ==
    AfterCalculateTimeStep =>
        IF steps = 0
        THEN dt = Min(dt_nextCheckpoint, BootDt)
        ELSE dt = Min(dt_nextCheckpoint, RequestedMin)

C2_Witness ==
    /\ AfterCalculateTimeStep
    /\ steps > 0
    /\ cooling_on
    /\ req[NRanks][THERMO] < req[1][HYDRO]
    /\ req[NRanks][THERMO] < req[1][THERMO]
    /\ dt = req[NRanks][THERMO]
    /\ dt < dt_nextCheckpoint

(* C3: the first calculateTimeStep of the run returns dt_max*1e-20, polls  *)
(* no integrator and leaves the quit flag alone; it is the only call that  *)
(* does: every later call polls the active integrators.                    *)
C3_BootstrapOnce ==
    [][(pc = "fullStep" /\ pc' = "step") =>
          /\ first_time <=> (steps = 0)
          /\ first_time =>
                /\ deltatime' = BootDt
                /\ polled' = {}
                /\ m_isQuitting' = m_isQuitting
          /\ ~first_time =>
                /\ HYDRO \in polled'
                /\ polled' = PolledComponents(radiation_on, cooling_on)
                /\ deltatime' # BootDt
          /\ ~first_time']_vars

C3_Witness ==
    /\ AfterCalculateTimeStep
    /\ steps = 0
    /\ deltatime = BootDt
    /\ debug
    /\ ~m_isQuitting
    /\ \E r \in Ranks : RatioTooSmall(req[r][HYDRO])

(* C4: with HYDRO the only component every fullStep is one hydroStep: two  *)
(* hydrodynamics.integrate calls, no subStep, no other integrate, and      *)
(* stepCounter stays as initialised.                                       *)
C4_HydroOnlyPredictorCorrector ==
    (pc # "start" /\ Len(activeComponents) = 1) =>
        /\ stepCounter = 0
        /\ \A j \in 1..Len(trace) : trace[j].op = "hydroStep"
        /\ \A j \in 1..Len(integrated) : integrated[j] = HYDRO
        /\ Len(integrated) <= 2
        /\ pc = "ret" => (integrated = <<HYDRO, HYDRO>> /\ Len(trace) = 1)

C4_Witness ==
    /\ pc = "ret"
    /\ Len(activeComponents) = 1
    /\ steps = 1
    /\ integrated = <<HYDRO, HYDRO>>

(* a sub-step (a subStep of the sweep, or the hydro predictor-corrector)   *)
(* has just returned                                                       *)
AfterSubStep == pc = "ret" \/ (pc = "step" /\ k > 0)

CellWithinBounds(cell) ==
    /\ \A f \in Fields : ~NonFinite(cell.U[f])
    /\ cell.Q.DEN \in {"ok", "inf"}
    /\ cell.Q.PRE \in {"ok", "inf"}
    /\ cell.Q.HII = "ok"

(* C5: after every sub-step every cell has finite U, Q[DEN] >= dfloor,     *)
(* Q[PRE] >= pfloor and Q[HII] in [0,1].                                   *)
C5_BoundsAfterEverySubStep ==
    AfterSubStep => \A c \in Cells : CellWithinBounds(cells[c])

(* C6: a cell that checkValues rejects never survives a sub-step: the run  *)
(* has failed before fullStep goes on or returns.                          *)
C6_BadCellIsFatal ==
    checkValues(cells) => pc \in {"fatal", "corrector"}

(* C7: with debug on, a non-first calculateTimeStep sets the quit flag     *)
(* whenever some active component's timestep, minimised over the ranks,    *)
(* is at most 1e-6*tmax.                                                   *)
C7_GuardOnAnyComponent ==
    (AfterCalculateTimeStep /\ debug /\ polled # {}) =>
        ((\E c \in polled : MPIMinimum([r \in Ranks |-> req[r][c]]) <= tmax \div ThydLimitInv)
            => m_isQuitting)

(* C8: with debug off calculateTimeStep leaves the quit flag as it is and  *)
(* the step proceeds with the computed dt.                                 *)
C8_NoGuardWithoutDebug ==
    [][(~debug /\ pc = "fullStep" /\ pc' = "step") =>
          /\ m_isQuitting' = m_isQuitting
          /\ dt' = Min(dt_nextCheckpoint, deltatime')
          /\ dt' > 0]_vars

C8_Witness ==
    /\ ~debug
    /\ ~m_isQuitting
    /\ pc = "fullStep"
    /\ steps = 2
    /\ deltatime = tmax \div (ThydScale * ThydLimitInv)

(* C9: the quit flag is never lowered, and once it is up the loop test     *)
(* ends the run: no fullStep starts and currentTime stays.                 *)
C9_QuitStopsLoop ==
    [][/\ m_isQuitting => m_isQuitting'
       /\ (m_isQuitting /\ pc = "loop") =>
             (pc' = "done" /\ currentTime' = currentTime /\ steps' = steps)
       /\ pc = "done" => (pc' = "done" /\ currentTime' = currentTime)]_vars

C9_Witness ==
    /\ pc = "done"
    /\ m_isQuitting
    /\ currentTime < tmax
    /\ steps = 2

(* C10: currentTime never decreases: it changes only when an outer step    *)
(* adds the dt fullStep returned, and that dt is not negative.             *)
C10_TimeMonotone ==
    [][/\ currentTime' >= currentTime
       /\ steps' # steps =>
             (steps' = steps + 1 /\ currentTime' = currentTime + dt /\ dt >= 0)
       /\ steps' = steps => currentTime' = currentTime]_vars

C10_Witness ==
    /\ steps = 3
    /\ currentTime = tmax
    /\ deltatime = dt_max

(* C11: currentTime stays within [0, tmax]: the dt of an outer step is at  *)
(* most the distance to the next output time, the last of which is tmax,   *)
(* so adding it never takes currentTime past tmax.                         *)
C11_TimeWithinTmax ==
    /\ 0 <= currentTime
    /\ currentTime <= tmax
    /\ pc \in {"step", "corrector", "ret"} =>
          /\ dt <= dt_nextCheckpoint
          /\ \E j \in 1..ncheckpoints : currentTime + dt_nextCheckpoint <= OutputTime(j)
          /\ currentTime + dt <= tmax

C11_Witness ==
    /\ pc = "ret"
    /\ dt_nextCheckpoint < deltatime
    /\ dt = dt_nextCheckpoint
    /\ currentTime + dt = OutputTime(1)
    /\ OutputTime(1) < tmax

-----------------------------------------------------------------------------
(* Properties of the column-density sweep *)

RECURSIVE SumDen(_, _, _)
SumDen(d, a, b) == IF a > b THEN 0 ELSE d[a] + SumDen(d, a + 1, b)

(* the column density from the star to cell g with the densities of the    *)
(* n-th rayTrace: the hydrogen in the cells from the star's up to g's      *)
(* upwind neighbour                                                        *)
ColDenFromStar(n, g) ==
    IF g > star.cell THEN SumDen(rayDEN[n], star.cell, g - 1)
    ELSE SumDen(rayDEN[n], g + 1, star.cell)

(* rank r has received in its current rayTrace and not yet returned *)
Sweeping(r) == rpc[r] \in {"walk", "send"}

(* the rayTrace calls in which rank r has received *)
ReceivedCount(r) == IF Sweeping(r) THEN rsweep[r] + 1 ELSE rsweep[r]

(* the live cell of rank a on the side of rank b *)
BoundaryCell(a, b) == IF b < a THEN 1 ELSE LiveCells

SameDensities == \A n \in 1..NSweeps : rayDEN[n] = rayDEN[1]

(* C12: a rank off the star updates cells only after its star-side          *)
(* neighbour has finished the same sweep and sent; every message carries   *)
(* the boundary column density of a finished walk; and every T[RATE] is    *)
(* computed from the column density of the rank's finished sweep.          *)
C12_SweepOrderedAcrossRanks ==
    /\ \A r \in RayRanks :
          (Core(star, r) # "HERE" /\ Sweeping(r)) =>
              rsweep[RecvSource(star, r)] >= rsweep[r] + 1
    /\ \A a, b \in RayRanks : \A i \in 1..Len(chan[<< a, b >>]) :
          LET n == rsweep[a] - Len(chan[<< a, b >>]) + i
              g == GlobalIndex(a, BoundaryCell(a, b))
          IN  /\ n >= 1
              /\ chan[<< a, b >>][i] = << ColDenFromStar(n, g), rayDEN[n][g] >>
    /\ \A r \in RayRanks : \A c \in Live :
          IF RatesCount(rpc, rsweep, r) = 0 \/ InWind(star, r, c)
          THEN tau[r][c] = -1
          ELSE tau[r][c] = ColDenFromStar(RatesCount(rpc, rsweep, r), GlobalIndex(r, c))

C12_Witness ==
    /\ StarRank(star) = 0
    /\ rpc[NProcs - 1] = "done"
    /\ rpc[0] = "done"
    /\ ~SameDensities
    /\ tau[NProcs - 1][LiveCells] > tau[NProcs - 1][1]
    /\ tau[NProcs - 1][1] > 0

(* C13: once a rank off the star has received, the ghost of its star-side   *)
(* ring holds the (COL_DEN, DCOL_DEN) of the neighbour's boundary cell from *)
(* the neighbour's sweep of the same number, no item is left over, and     *)
(* after the walk the adjacent live cell's COL_DEN is their sum.           *)
C13_GhostsHoldNeighbourBoundary ==
    \A r \in RayRanks :
        (Core(star, r) # "HERE" /\ ReceivedCount(r) >= 1) =>
            LET n == ReceivedCount(r)
                src == RecvSource(star, r)
                ghost == Head(RecvRing(star, r))
                g == GlobalIndex(r, ghost)
                first == IF ghost = 0 THEN 1 ELSE LiveCells
            IN  /\ T[r][ghost] = [COL_DEN |-> ColDenFromStar(n, g), DCOL_DEN |-> rayDEN[n][g]]
                /\ recvq[r] = << >>
                /\ (rsweep[src] = n /\ ~Sweeping(src)) =>
                       T[r][ghost] = T[src][BoundaryCell(src, r)]
                /\ rsweep[r] = n =>
                       T[r][first].COL_DEN = T[r][ghost].COL_DEN + T[r][ghost].DCOL_DEN

C13_Witness ==
    /\ StarRank(star) = 1
    /\ NProcs - 1 > 1
    /\ rpc[NProcs - 1] = "rates"
    /\ rsweep[NProcs - 1] = 2
    /\ rayDEN[1] # rayDEN[2]
    /\ T[NProcs - 1][0].COL_DEN > 0
    /\ T[NProcs - 1][0] = T[NProcs - 2][LiveCells]
    /\ T[NProcs - 1][0] # T[NProcs - 2][1]

(* C14: with the same Q at every call, each rayTrace after the first leaves *)
(* in every cell the T[COL_DEN] and T[DCOL_DEN] the first one left.         *)
C14_SweepRepeatable ==
    \A r \in RayRanks :
        (SameDensities /\ rsweep[r] >= 2 /\ ~Sweeping(r)) => T[r] = Tfirst[r]

C14_Witness ==
    /\ SameDensities
    /\ StarRank(star) = 0
    /\ rsweep[NProcs - 1] = 2
    /\ rpc[NProcs - 1] = "rates"
    /\ T[NProcs - 1][LiveCells].COL_DEN > T[NProcs - 1][1].COL_DEN
    /\ T[NProcs - 1][1].COL_DEN > 0
    /\ rayDEN[1][0] # rayDEN[1][1]

-----------------------------------------------------------------------------
(* Thermodynamics::softLanding on its own *)

(* net rates: cooling, none, heating *)
SoftLandingRates == {-800, -400, -200, 0, 200, 400}

(* temperatures from below the lowest T_min to above the highest landing zone *)
SoftLandingTemps == {50 * n : n \in 0..10}

(* cell.T_min: m_T_min or the temperature of the initial state *)
SoftLandingTmins == {100, 150, 200}

InitSoftLanding ==
    /\ TorchParked /\ RayParked /\ InitParked /\ NameParked /\ MpiParked /\ HydParked
    /\ ThermoIdle
    /\ \E rate \in SoftLandingRates, temp \in SoftLandingTemps, T_min \in SoftLandingTmins :
         sl = [rate |-> rate, temp |-> temp, T_min |-> T_min, result |-> 0,
               called |-> FALSE]

SoftLandingCall ==
    /\ sl.called = FALSE
    /\ sl' = [sl EXCEPT !.result = softLanding(sl.rate, sl.temp, sl.T_min), !.called = TRUE]
    /\ UNCHANGED << tpc, tcell, m_isSubcycling, tdt_max, tdt, tstep, pnew, tround,
                    notThermoVars >>

NextSoftLanding == SoftLandingCall

SpecSoftLanding == InitSoftLanding /\ [][NextSoftLanding]_vars

-----------------------------------------------------------------------------
(* Torch::initialise from hydrodynamics.initialise on *)

(* the names RiemannSolverFactory::create knows *)
RiemannSolverNames == {"HLLC", "HLL", "RotatedHLLC"}

(* the names SlopeLimiterFactory::create knows *)
SlopeLimiterNames == {"minmod", "maxmod", "superbee", "monotonised_central"}

(* names of parameters.lua no factory knows *)
UnknownNames == {"", "Roe", "none"}

(* Factory::create: the strategy of that name, or a std::exception thrown *)
Create(name, known) ==
    IF name \in known THEN [thrown |-> FALSE, made |-> name, what |-> ""]
    ELSE [thrown |-> TRUE, made |-> "", what |-> name]

AfterUncaught(next) == "terminated"

(* catch (std::exception& e): initialise goes on with the next statement *)
AfterCatch(next) == next

InitInitialise ==
    /\ TorchParked /\ RayParked /\ ThermoParked /\ NameParked /\ MpiParked /\ HydParked
    /\ ipc = "riemann"
    /\ param \in [riemannSolver : RiemannSolverNames \cup UnknownNames,
                  slopeLimiter : SlopeLimiterNames \cup UnknownNames]
    /\ m_riemannSolver = "default"
    /\ m_slopeLimiter = "default"
    /\ warnings = << >>
    /\ initialised = << >>

(* try { hydrodynamics.setRiemannSolver(RiemannSolverFactory::create(...)) } *)
InitialiseRiemannSolver ==
    /\ ipc = "riemann"
    /\ LET created == Create(param.riemannSolver, RiemannSolverNames)
       IN  IF created.thrown
           THEN /\ warnings' = Append(warnings, << "riemannSolver", created.what >>)
                /\ ipc' = AfterCatch("limiter")
                /\ UNCHANGED m_riemannSolver
           ELSE /\ m_riemannSolver' = created.made
                /\ ipc' = "limiter"
                /\ UNCHANGED warnings
    /\ UNCHANGED << param, m_slopeLimiter, initialised, notInitVars >>

(* try { hydrodynamics.setSlopeLimiter(SlopeLimiterFactory::create(...)) } *)
InitialiseSlopeLimiter ==
    /\ ipc = "limiter"
    /\ LET created == Create(param.slopeLimiter, SlopeLimiterNames)
       IN  IF created.thrown
           THEN /\ warnings' = Append(warnings, << "slopeLimiter", created.what >>)
                /\ ipc' = AfterCatch("radiation")
                /\ UNCHANGED m_slopeLimiter
           ELSE /\ m_slopeLimiter' = created.made
                /\ ipc' = "radiation"
                /\ UNCHANGED warnings
    /\ UNCHANGED << param, m_riemannSolver, initialised, notInitVars >>

(* radiation.initialise *)
InitialiseRadiation ==
    /\ ipc = "radiation"
    /\ initialised' = Append(initialised, "radiation")
    /\ ipc' = "thermodynamics"
    /\ UNCHANGED << param, m_riemannSolver, m_slopeLimiter, warnings, notInitVars >>

(* thermodynamics.initialise *)
InitialiseThermodynamics ==
    /\ ipc = "thermodynamics"
    /\ initialised' = Append(initialised, "thermodynamics")
    /\ ipc' = "grid"
    /\ UNCHANGED << param, m_riemannSolver, m_slopeLimiter, warnings, notInitVars >>

(* the parameters of Torch, then the grid: read or set up, fixed, U from Q *)
InitialiseGrid ==
    /\ ipc = "grid"
    /\ initialised' = Append(initialised, "grid")
    /\ ipc' = "done"
    /\ UNCHANGED << param, m_riemannSolver, m_slopeLimiter, warnings, notInitVars >>

NextInitialise ==
    \/ InitialiseRiemannSolver
    \/ InitialiseSlopeLimiter
    \/ InitialiseRadiation
    \/ InitialiseThermodynamics
    \/ InitialiseGrid

SpecInitialise == InitInitialise /\ [][NextInitialise]_vars

-----------------------------------------------------------------------------
(* snapshot names: formatSuffix writes the step ID, stepIDFromFilename reads *)
(* it back; a string is a sequence of characters                            *)

DigitChars == << "0", "1", "2", "3", "4", "5", "6", "7", "8", "9" >>

(* operator<< of an int that is not negative: its decimal digits *)
RECURSIVE Decimal(_)
Decimal(i) ==
    IF i < 10 THEN << DigitChars[i + 1] >>
    ELSE Decimal(i \div 10) \o << DigitChars[(i % 10) + 1] >>

(* header.width(6) *)
SuffixWidth == 6

(* header.fill('0'): the field is padded on the left up to the width *)
RECURSIVE Filled(_, _)
Filled(str, width) ==
    IF Len(str) >= width THEN str ELSE Filled(<< "0" >> \o str, width)

formatSuffix(i) == Filled(Decimal(i), SuffixWidth)

(* std::string::npos *)
npos == 0

find_first_of(str, ch) ==
    IF \E n \in 1..Len(str) : str[n] = ch
    THEN CHOOSE n \in 1..Len(str) : str[n] = ch /\ \A m \in 1..(n - 1) : str[m] # ch
    ELSE npos

(* std::string::find_last_of: the position of the last ch, counted from 1 *)
find_last_of(str, ch) ==
    IF \E n \in 1..Len(str) : str[n] = ch
    THEN CHOOSE n \in 1..Len(str) : str[n] = ch /\ \A m \in (n + 1)..Len(str) : str[m] # ch
    ELSE npos

IsDigit(ch) == \E d \in 1..10 : DigitChars[d] = ch

DigitValue(ch) == (CHOOSE d \in 1..10 : DigitChars[d] = ch) - 1

(* the value of the digits str starts with, after the digits already read *)
RECURSIVE LeadingDigits(_, _)
LeadingDigits(str, read) ==
    IF str = << >> \/ ~IsDigit(Head(str)) THEN read
    ELSE LeadingDigits(Tail(str), 10 * read + DigitValue(Head(str)))

(* std::stoi: an optional sign, then the digits the string starts with;     *)
(* std::invalid_argument when there is no digit                             *)
stoi(str) ==
    LET signed == str # << >> /\ Head(str) \in {"-", "+"}
        digits == IF signed THEN Tail(str) ELSE str
    IN  IF digits = << >> \/ ~IsDigit(Head(digits))
        THEN [thrown |-> TRUE, value |-> 0]
        ELSE [thrown |-> FALSE,
              value |-> IF signed /\ Head(str) = "-"
                        THEN 0 - LeadingDigits(digits, 0)
                        ELSE LeadingDigits(digits, 0)]

stepIDFromFilename(filename) ==
    LET lastindex == find_last_of(filename, ".")
        rawname == IF lastindex # npos THEN SubSeq(filename, 1, lastindex - 1) ELSE filename
        underscore_index == find_last_of(rawname, "_")
        stepno_string == IF underscore_index # npos
                         THEN SubSeq(rawname, underscore_index + 1, Len(rawname))
                         ELSE << "-", "1" >>
    IN  stoi(stepno_string)

(* the step IDs of a run: Checkpointer::getCount, up to six digits *)
StepIDs == {0, 7, 10, 42, 305, 1000, 9999, 12345, 99999, 100000, 999999}

(* what the writer puts before the underscore: directory and file stem *)
SnapshotPrefixes ==
    { << "d", "a", "t", "a", "2", "D" >>,
      << "r", "u", "n", "_", "1", "/", "h", "e", "a", "t" >>,
      << ".", "/", "v", "1", ".", "2", "/", "d", "a", "t", "a", "2", "D" >>,
      << >> }

(* the extension the writer puts after the dot *)
SnapshotExtensions ==
    { << "t", "x", "t" >>,
      << "h", "5" >>,
      << "t", "_", "x" >>,
      << >> }

(* initialConditions of parameters.lua that no snapshot writer has named *)
SuppliedNames ==
    { << "d", "a", "t", "a", "2", "D", ".", "t", "x", "t" >>,
      << "d", "a", "t", "a", "2", "D" >>,
      << ".", "/", "d", "a", "t", "a", "2", "D" >>,
      << "a", "_", "b", ".", "t", "x", "t" >>,
      << "d", "a", "t", "a", "2", "D", ".", "t", "_", "x" >> }

(* the name of the snapshot of step i *)
SnapshotName(prefix, i, ext) == prefix \o << "_" >> \o formatSuffix(i) \o << "." >> \o ext

InitNames ==
    /\ TorchParked /\ RayParked /\ ThermoParked /\ InitParked /\ MpiParked /\ HydParked
    /\ fpc = "run"
    /\ fprefix \in SnapshotPrefixes
    /\ fext \in SnapshotExtensions
    /\ fid \in StepIDs
    /\ fname = << >>
    /\ stepstart = 0

(* Torch::run prints the snapshot of step fid; a later run is started from it *)
PrintSnapshot ==
    /\ fpc = "run"
    /\ fname' = SnapshotName(fprefix, fid, fext)
    /\ fpc' = "written"
    /\ UNCHANGED << fprefix, fext, fid, stepstart, notNameVars >>

(* a run is started from a file the user names *)
SupplyName ==
    /\ fpc = "run"
    /\ fname' \in SuppliedNames
    /\ fpc' = "supplied"
    /\ UNCHANGED << fprefix, fext, fid, stepstart, notNameVars >>

(* Torch::initialise: stepstart = stepIDFromFilename(initialConditions);    *)
(* an exception of std::stoi leaves initialise                              *)
Restart ==
    /\ fpc \in {"written", "supplied"}
    /\ LET id == stepIDFromFilename(fname)
       IN  IF id.thrown
           THEN /\ fpc' = "terminated"
                /\ UNCHANGED stepstart
           ELSE /\ stepstart' = id.value
                /\ fpc' = IF fpc = "written" THEN "restarted" ELSE "started"
    /\ UNCHANGED << fprefix, fext, fid, fname, notNameVars >>

NextNames ==
    \/ PrintSnapshot
    \/ SupplyName
    \/ Restart

SpecNames == InitNames /\ [][NextNames]_vars

-----------------------------------------------------------------------------
(* Torch::run on every rank: calculateTimeStep with its collective minimum, *)
(* the sub-steps of fullStep, the advance of currentTime                    *)

(* what the integrators of one rank answer: a small step or dt_max *)
LocalDts == {tmax \div 1000000, dt_max}

(* MPIW::minimum returns on a rank once every rank has given its value *)
AllGiven(given, n) == \A r \in Ranks : Len(given[r]) >= n

(* the minimum of the values the ranks gave to the n-th MPIW::minimum *)
Reduced(given, n) == MPIMinimum([r \in Ranks |-> given[r][n]])

GlobalDtNotReduced(local, minimum) == local

(* dt = MPIW::Instance().minimum(dt) *)
GlobalDt(local, minimum) == minimum

(* checkpointer.update(currentTime, dt_nextCheckpoint) from dt_max *)
RankDtNextCheckpoint(t) == DtAfterUpdate(t, CountAfterUpdate(t, 0), dt_max)

(* the dt a rank's hydrodynamics asks for in a run with debug on *)
GuardDts == {tmax \div (ThydScale * ThydLimitInv), dt_max}

GuardValueLocal(local, minimum) == local

(* thyd = MPIW::Instance().minimum(thyd) *)
GuardValue(local, minimum) == minimum

(* while (currentTime < tmax && !m_isQuitting) *)
RankLoopContinues(r) ==
    mpi.time[r] < tmax /\ ~mpi.quit[r] /\ Len(mpi.dts[r]) < MaxSteps

InitMinimum ==
    /\ TorchParked /\ RayParked /\ ThermoParked /\ InitParked /\ NameParked /\ HydParked
    /\ \E dbg \in BOOLEAN :
         mpi = [pc |-> [r \in Ranks |-> "loop"], local |-> [r \in Ranks |-> 0],
                given |-> [r \in Ranks |-> << >>], dts |-> [r \in Ranks |-> << >>],
                time |-> [r \in Ranks |-> 0], first |-> [r \in Ranks |-> TRUE],
                debug |-> dbg, quit |-> [r \in Ranks |-> FALSE],
                gv |-> [r \in Ranks |-> << >>], calls |-> [r \in Ranks |-> << >>]]

(* fullStep, calculateTimeStep up to its first collective: the minimum of   *)
(* thyd when debug is on and the call is not the first, else that of dt;    *)
(* hydrodynamics alone sets the local dt                                    *)
RankCalculate(r) ==
    /\ mpi.pc[r] = "loop"
    /\ RankLoopContinues(r)
    /\ \E d \in (IF mpi.debug THEN GuardDts ELSE LocalDts) :
         LET local == IF mpi.first[r] THEN BootstrapDt ELSE d
         IN  IF mpi.debug /\ ~mpi.first[r]
             THEN mpi' = [mpi EXCEPT !.local[r] = local,
                                     !.gv[r] = Append(@, local),
                                     !.calls[r] = Append(@, "thyd"),
                                     !.pc[r] = "guard"]
             ELSE mpi' = [mpi EXCEPT !.local[r] = local,
                                     !.given[r] = Append(@, local),
                                     !.calls[r] = Append(@, "dt"),
                                     !.first[r] = FirstTimeAfterCall,
                                     !.pc[r] = "minimum"]
    /\ UNCHANGED notMpiVars

(* a collective minimum of the debug block returns: after thyd the rank     *)
(* gives trad, after trad ttherm; after ttherm it tests the guard and gives *)
(* dt to the collective minimum that follows the block                      *)
RankGuard(r) ==
    /\ mpi.pc[r] = "guard"
    /\ AllGiven(mpi.gv, Len(mpi.gv[r]))
    /\ LET n == Len(mpi.gv[r])
       IN  IF n % 3 # 0
           THEN mpi' = [mpi EXCEPT !.gv[r] = Append(@, mpi.local[r]),
                                   !.calls[r] = Append(@, IF n % 3 = 1 THEN "trad"
                                                          ELSE "ttherm")]
           ELSE mpi' = [mpi EXCEPT
                          !.quit[r] = QuitAfterGuard(mpi.debug, @,
                                         GuardValue(mpi.local[r], Reduced(mpi.gv, n - 2)),
                                         GuardValue(mpi.local[r], Reduced(mpi.gv, n - 1)),
                                         GuardValue(mpi.local[r], Reduced(mpi.gv, n))),
                          !.given[r] = Append(@, mpi.local[r]),
                          !.calls[r] = Append(@, "dt"),
                          !.pc[r] = "minimum"]
    /\ UNCHANGED notMpiVars

(* the collective minimum returns; dt = min(dt_nextCheckPoint, dt) *)
RankMinimum(r) ==
    /\ mpi.pc[r] = "minimum"
    /\ AllGiven(mpi.given, Len(mpi.given[r]))
    /\ mpi' = [mpi EXCEPT
                 !.dts[r] = Append(@, StepDt(RankDtNextCheckpoint(mpi.time[r]),
                                             GlobalDt(mpi.local[r],
                                                      Reduced(mpi.given,
                                                              Len(mpi.given[r]))))),
                 !.pc[r] = "step"]
    /\ UNCHANGED notMpiVars

(* hydroStep, or the sub-steps of the Strang sweep; fullStep returns dt *)
RankSubSteps(r) ==
    /\ mpi.pc[r] = "step"
    /\ mpi' = [mpi EXCEPT !.pc[r] = "ret"]
    /\ UNCHANGED notMpiVars

(* currentTime += deltatime *)
RankAdvance(r) ==
    /\ mpi.pc[r] = "ret"
    /\ mpi' = [mpi EXCEPT !.time[r] = TimeAfterStep(@, mpi.dts[r][Len(mpi.dts[r])]),
                          !.pc[r] = "loop"]
    /\ UNCHANGED notMpiVars

(* the loop test fails: the rank goes to mpihandler.barrier() *)
RankExit(r) ==
    /\ mpi.pc[r] = "loop"
    /\ ~RankLoopContinues(r)
    /\ mpi' = [mpi EXCEPT !.calls[r] = Append(@, "barrier"), !.pc[r] = "barrier"]
    /\ UNCHANGED notMpiVars

(* the barrier returns once every rank has reached it *)
RankBarrier(r) ==
    /\ mpi.pc[r] = "barrier"
    /\ \A r2 \in Ranks : mpi.pc[r2] \in {"barrier", "done"}
    /\ mpi' = [mpi EXCEPT !.pc[r] = "done"]
    /\ UNCHANGED notMpiVars

NextMinimum ==
    \E r \in Ranks :
        \/ RankCalculate(r)
        \/ RankGuard(r)
        \/ RankMinimum(r)
        \/ RankSubSteps(r)
        \/ RankAdvance(r)
        \/ RankExit(r)
        \/ RankBarrier(r)

SpecMinimum == InitMinimum /\ [][NextMinimum]_vars

-----------------------------------------------------------------------------
(* Torch::hydroStep on one cell with one conserved field, in numbers: U is  *)
(* the energy of the cell, Q its pressure, W the snapshot of U, UDOT the    *)
(* tendency the hydrodynamics integrator leaves.                            *)

(* the U a step starts from, the dt fullStep passes, and the W an earlier   *)
(* step has left                                                            *)
HydroStepU == 1..12
HydroStepDts == {2, 4, 6}
HydroStaleW == {0, 9}

(* Fluid::globalQfromU on the cell: pressure from energy *)
PrimitiveFromU(u) == 2 * u

(* hydrodynamics.integrate and updateSourceTerms: UDOT is -div F plus the   *)
(* sources, both functions of the Q of the cell when integrate is called    *)
TendencyFromQ(q) == 10 - (q \div 2)

(* Fluid::advSolution(dt): U += dt*UDOT, and UDOT starts from nothing again *)
AdvancedBy(h, dtime) == [h EXCEPT !.U = h.U + dtime * h.UDOT, !.UDOT = 0]

(* Fluid::fixSolution: the energy is floored *)
SolutionFixed(h) == [h EXCEPT !.U = IF h.U < 1 THEN 1 ELSE h.U]

(* hydrodynamics.integrate(dt, fluid); hydrodynamics.updateSourceTerms *)
HydroIntegrated(h) == [h EXCEPT !.UDOT = TendencyFromQ(h.Q)]

SnapshotIgnored(h) == h

(* fluid.globalWfromU() *)
SnapshotTaken(h) == [h EXCEPT !.W = h.U]

(* fluid.globalUfromW() *)
SnapshotRestored(h) == [h EXCEPT !.U = h.W]

(* fullStep has run globalQfromU and fixPrimitives and calls                *)
(* hydroStep(dt, true)                                                     *)
InitHydroStep ==
    /\ TorchParked /\ RayParked /\ ThermoParked /\ InitParked /\ NameParked /\ MpiParked
    /\ \E u \in HydroStepU, dtime \in HydroStepDts, w \in HydroStaleW :
          hyd = [pc |-> "predictor", U |-> u, Q |-> PrimitiveFromU(u), W |-> w,
                 UDOT |-> 0, dt |-> dtime, U0 |-> u, Qhalf |-> 0]

(* hydroStep up to the corrector: globalWfromU, integrate, updateSourceTerms, *)
(* advSolution(dt/2.0), fixSolution                                          *)
HydroStepPredictor ==
    /\ hyd.pc = "predictor"
    /\ hyd' = [SolutionFixed(AdvancedBy(HydroIntegrated(SnapshotTaken(hyd)), hyd.dt \div 2))
                  EXCEPT !.pc = "corrector"]
    /\ UNCHANGED notHydVars

(* the corrector: globalQfromU, globalUfromW, integrate, updateSourceTerms, *)
(* advSolution(dt), fixSolution                                             *)
HydroStepCorrector ==
    /\ hyd.pc = "corrector"
    /\ LET h1 == [hyd EXCEPT !.Q = PrimitiveFromU(hyd.U), !.Qhalf = PrimitiveFromU(hyd.U)]
       IN  hyd' = [SolutionFixed(AdvancedBy(HydroIntegrated(SnapshotRestored(h1)), hyd.dt))
                     EXCEPT !.pc = "done"]
    /\ UNCHANGED notHydVars

NextHydroStep == HydroStepPredictor \/ HydroStepCorrector

SpecHydroStep == InitHydroStep /\ [][NextHydroStep]_vars

-----------------------------------------------------------------------------
(* a cell of CausalNonWind whose Q[ADV] is below thermoHII_Switch *)
VisitedBelowSwitch(c) == ~tcell[c].wind /\ tcell[c].ADV < thermoHII_Switch

(* C15 as stated: every thermodynamics operation that visits a cell of     *)
(* CausalNonWind with Q[ADV] < thermoHII_Switch leaves it with T[RATE] = 0  *)
(* and H[i] = 0 for every i, and evaluates no rate for it.                  *)
C15_EveryOperationZeroesRateAndHeating ==
    [][\A c \in ThermoCells :
          (/\ VisitedBelowSwitch(c)
           /\ ThermoPreTimeStep \/ (ThermoIntegrate /\ m_isSubcycling) \/ ThermoFill)
          => /\ tcell'[c].RATE = 0
             /\ tcell'[c].H = NoHeating
             /\ tcell'[c].evals = tcell[c].evals]_vars

(* C15: for a cell of CausalNonWind with Q[ADV] < thermoHII_Switch,         *)
(* preTimeStepCalculations writes T[RATE] = 0 and leaves H as it was,       *)
(* integrate with sub-cycling writes T[RATE] = 0 and H[i] = 0 for every i,  *)
(* fillHeatingArrays writes H[i] = 0 for every i and leaves T[RATE] as it   *)
(* was; none of them evaluates a heating or cooling rate for the cell.      *)
C15_EachOperationZeroesWhatItComputes ==
    [][\A c \in ThermoCells :
          VisitedBelowSwitch(c)
          => /\ ThermoPreTimeStep => tcell'[c] = [tcell[c] EXCEPT !.RATE = 0]
             /\ (ThermoIntegrate /\ m_isSubcycling)
                  => tcell'[c] = [tcell[c] EXCEPT !.RATE = 0, !.H = NoHeating]
             /\ ThermoFill => tcell'[c] = [tcell[c] EXCEPT !.H = NoHeating]]_vars

(* preTimeStepCalculations has left a cell below the switch with T[RATE] = 0 *)
(* and with the H an earlier operation wrote when the cell was above it     *)
C15_Witness ==
    /\ tpc = "dt"
    /\ \E c \in ThermoCells :
         /\ VisitedBelowSwitch(c)
         /\ tcell[c].RATE = 0
         /\ tcell[c].evals = 0
         /\ tcell[c].H # NoHeating

(* C16: softLanding returns the rate unchanged when rate >= 0 or            *)
(* T > T_min + 200, 0 when rate < 0 and T <= T_min, and rate*(T - T_min)/200 *)
(* in between (half the rate at T = T_min + 100); the result never has the  *)
(* opposite sign of the rate and never exceeds it in magnitude.             *)
C16_SoftLandingPiecewise ==
    sl.called =>
        /\ (sl.rate >= 0 \/ sl.temp > sl.T_min + 200) => sl.result = sl.rate
        /\ (sl.rate < 0 /\ sl.temp <= sl.T_min) => sl.result = 0
        /\ (sl.rate < 0 /\ sl.T_min < sl.temp /\ sl.temp <= sl.T_min + 200)
             => 200 * sl.result = sl.rate * (sl.temp - sl.T_min)
        /\ (sl.rate < 0 /\ sl.temp = sl.T_min + 100) => 2 * sl.result = sl.rate
        /\ sl.result * sl.rate >= 0
        /\ Abs(sl.result) <= Abs(sl.rate)

(* a net cooling rate halved at T = T_min + 100 *)
C16_Witness ==
    /\ sl.called
    /\ sl.rate < 0
    /\ sl.temp = sl.T_min + 100
    /\ sl.result # 0
    /\ 2 * sl.result = sl.rate

(* C17: after integrate(dt) with sub-cycling, every visited cell at or      *)
(* above the switch has T[RATE] = (p_new - Q[PRE]) / ((gamma - 1) * dt),    *)
(* p_new being the clamped pressure after all passes of the sub-cycle:      *)
(* T[RATE] applied over the whole dt gives the sub-cycled pressure change.  *)
C17_RateReproducesSubcycledPressure ==
    (tpc = "upd" /\ m_isSubcycling) =>
        \A c \in ThermoCells :
            (~tcell[c].wind /\ ~BelowSwitch(tcell[c]))
            => tcell[c].RATE * (tcell[c].gm1 * tstep) = pnew[c] - tcell[c].PRE

(* ten times f: f = 1 with sub-cycling, 0.1 without *)
C18_TenF == IF m_isSubcycling THEN 10 ELSE 1

(* C18: Thermodynamics::calculateTimeStep(dt_max) returns the minimum of    *)
(* dt_max and of f*|U[PRE]/T[RATE]| over the cells with T[RATE] # 0, f = 1  *)
(* with sub-cycling and 0.1 without; cells with T[RATE] = 0 do not          *)
(* constrain it, it never exceeds dt_max, and no cell field is modified.    *)
C18_ThermoTimeStepIsMinimum ==
    [][ThermoCalculateTimeStep =>
        /\ tcell' = tcell
        /\ tdt' <= tdt_max
        /\ \A c \in ThermoCells :
              tcell[c].RATE # 0
              => 10 * Abs(tcell[c].RATE) * tdt' <= C18_TenF * Abs(tcell[c].UPRE)
        /\ \/ tdt' = tdt_max
           \/ \E c \in ThermoCells :
                 /\ tcell[c].RATE # 0
                 /\ 10 * Abs(tcell[c].RATE) * tdt' = C18_TenF * Abs(tcell[c].UPRE)]_vars

(* without sub-cycling, a cell with a rate has constrained the step below   *)
(* dt_max while another cell has T[RATE] = 0                                *)
C18_Witness ==
    /\ tpc = "int"
    /\ ~m_isSubcycling
    /\ tdt < tdt_max
    /\ \E c \in ThermoCells : tcell[c].RATE = 0
    /\ \E c \in ThermoCells :
         /\ tcell[c].RATE # 0
         /\ 10 * Abs(tcell[c].RATE) * tdt = Abs(tcell[c].UPRE)

(* C19: a Riemann solver or slope limiter whose construction from its       *)
(* configured name fails is logged as a WARNING and the default strategy    *)
(* stays; initialise goes on with radiation, thermodynamics and the grid;   *)
(* the failure of one does not keep the other from being installed.         *)
C19_FailedStrategyKeepsDefaultAndContinues ==
    /\ ipc # "terminated"
    /\ ipc \notin {"riemann"} =>
         IF param.riemannSolver \in RiemannSolverNames
         THEN m_riemannSolver = param.riemannSolver
         ELSE /\ m_riemannSolver = "default"
              /\ \E n \in 1..Len(warnings) : warnings[n][1] = "riemannSolver"
    /\ ipc \notin {"riemann", "limiter"} =>
         IF param.slopeLimiter \in SlopeLimiterNames
         THEN m_slopeLimiter = param.slopeLimiter
         ELSE /\ m_slopeLimiter = "default"
              /\ \E n \in 1..Len(warnings) : warnings[n][1] = "slopeLimiter"
    /\ ipc = "done" => initialised = << "radiation", "thermodynamics", "grid" >>

(* initialise has finished with the default Riemann solver, one WARNING,    *)
(* and the configured slope limiter installed                               *)
C19_Witness ==
    /\ ipc = "done"
    /\ param.riemannSolver \notin RiemannSolverNames
    /\ param.slopeLimiter \in SlopeLimiterNames
    /\ m_riemannSolver = "default"
    /\ m_slopeLimiter = param.slopeLimiter
    /\ Len(warnings) = 1
    /\ initialised = << "radiation", "thermodynamics", "grid" >>

(* a string without an underscore *)
C20_NoUnderscore(str) == \A n \in 1..Len(str) : str[n] # "_"

(* the characters of the suffix in a written snapshot name *)
C20_Suffix == SubSeq(fname, Len(fprefix) + 2, Len(fprefix) + 7)

(* the number six decimal digits spell *)
C20_Spelled(str) ==
    100000 * DigitValue(str[1]) + 10000 * DigitValue(str[2]) + 1000 * DigitValue(str[3])
    + 100 * DigitValue(str[4]) + 10 * DigitValue(str[5]) + DigitValue(str[6])

(* C20: the step ID written into a snapshot name is read back on restart:   *)
(* for 0 <= i < 10^6 the suffix is the six-character zero-padded decimal of *)
(* i and stepIDFromFilename(prefix_suffix.ext) = i; a name without an       *)
(* underscore yields -1.                                                    *)
C20_StepIDReadBack ==
    /\ (fpc \in {"written", "restarted", "terminated"} /\ fname # << >>
         /\ fname = SnapshotName(fprefix, fid, fext))
        => /\ Len(fname) = Len(fprefix) + Len(fext) + 8
           /\ \A n \in 1..6 : IsDigit(C20_Suffix[n])
           /\ C20_Spelled(C20_Suffix) = fid
           /\ fpc # "terminated"
    /\ fpc = "restarted" => stepstart = fid
    /\ (fpc \in {"supplied", "started", "terminated"} /\ fname \in SuppliedNames
         /\ C20_NoUnderscore(fname))
        => /\ fpc # "terminated"
           /\ fpc = "started" => stepstart = -1

(* step 42 read back from a snapshot whose directory has an underscore and  *)
(* whose suffix is padded with zeros                                        *)
C20_Witness ==
    /\ fpc = "restarted"
    /\ fid = 42
    /\ ~C20_NoUnderscore(fprefix)
    /\ C20_Suffix = << "0", "0", "0", "0", "4", "2" >>
    /\ stepstart = 42

(* the outer steps a rank has completed *)
C21_StepsDone(r) ==
    Len(mpi.dts[r]) - (IF mpi.pc[r] \in {"step", "ret"} THEN 1 ELSE 0)

(* C21: in every outer step every rank has given its dt to the collective   *)
(* minimum before any rank starts its sub-steps, all ranks leave fullStep   *)
(* with the same dt, and after every outer step all ranks hold the same     *)
(* currentTime.                                                             *)
C21_SameDtOnEveryRank ==
    /\ \A r \in Ranks :
         mpi.pc[r] \in {"step", "ret"} => AllGiven(mpi.given, Len(mpi.dts[r]))
    /\ \A r1, r2 \in Ranks :
         /\ \A n \in 1..Min(Len(mpi.dts[r1]), Len(mpi.dts[r2])) :
               mpi.dts[r1][n] = mpi.dts[r2][n]
         /\ C21_StepsDone(r1) = C21_StepsDone(r2) => mpi.time[r1] = mpi.time[r2]

(* two ranks whose integrators asked for different dt in the second outer   *)
(* step have both completed it with one dt and one currentTime              *)
C21_Witness ==
    \E r1, r2 \in Ranks :
        /\ mpi.pc[r1] = "loop" /\ mpi.pc[r2] = "loop"
        /\ Len(mpi.dts[r1]) = 2 /\ Len(mpi.dts[r2]) = 2
        /\ mpi.given[r1][2] # mpi.given[r2][2]
        /\ mpi.dts[r1][2] = mpi.dts[r2][2]
        /\ mpi.time[r1] = mpi.time[r2]
        /\ mpi.time[r1] > BootstrapDt

(* C22: within an outer step no active integrator is integrated (in the    *)
(* Strang sweep or in the predictor of the hydro-only path) unless         *)
(* globalQfromU, fixPrimitives and its own preTimeStepCalculations ran     *)
(* since the last advSolution.                                             *)
C22_EveryIntegrateIsPrepared ==
    prep.missed = {}

C29_HydroStepWhenHydroIsFirst ==
    \A n \in 1..Len(trace) :
        (trace[n].comp = HYDRO /\ (Len(activeComponents) = 1 \/ n = 1))
            => trace[n].op = "hydroStep"

(* C30: once run has listed the active components 0 <= stepCounter < n and *)
(* every sweep index addresses an active component; a multi-component      *)
(* fullStep advances stepCounter to (stepCounter + 1) mod n before its     *)
(* first sub-step, and no sub-step changes it.                             *)
C30_StepCounterRotates ==
    [][/\ pc' # "start" =>
            /\ 0 <= stepCounter' /\ stepCounter' < Len(activeComponents')
            /\ \A i \in 0..(Len(activeComponents') - 1) :
                   ((i + stepCounter') % Len(activeComponents')) + 1
                       \in DOMAIN activeComponents'
       /\ (pc = "fullStep" /\ pc' = "step" /\ Len(activeComponents) > 1) =>
            /\ stepCounter' = (stepCounter + 1) % Len(activeComponents)
            /\ trace' = << >>
       /\ ~(pc = "fullStep" /\ pc' = "step" /\ Len(activeComponents) > 1) =>
            stepCounter' = stepCounter]_vars

(* a three-component run in its third outer step: the counter has wrapped  *)
(* to 0 and the sweep is under way                                         *)
C30_Witness ==
    /\ Len(activeComponents) = 3
    /\ steps = 2
    /\ stepCounter = 0
    /\ pc = "step"
    /\ Len(trace) = 2

(* the ranks from which rank r takes a message in this step *)
C24_ReceivedFrom(r) ==
    {a \in RayRanks : Len(chan'[<< a, r >>]) < Len(chan[<< a, r >>])}

C25_SentTo(r) ==
    {b \in RayRanks : Len(chan'[<< r, b >>]) > Len(chan[<< r, b >>])}

(* the (COL_DEN, DCOL_DEN) of the live cell of rank r next to rank b *)
C25_Boundary(r, b) ==
    << T[r][BoundaryCell(r, b)].COL_DEN, T[r][BoundaryCell(r, b)].DCOL_DEN >>

(* every message rank r sends in this step is one message holding its      *)
(* boundary column densities on that side                                  *)
C25_SendsBoundary(r) ==
    \A b \in C25_SentTo(r) :
        chan'[<< r, b >>] = Append(chan[<< r, b >>], C25_Boundary(r, b))

(* C25 as stated: after its walk a rank sends its boundary column          *)
(* densities to the neighbour away from the star, and sends nothing if it  *)
(* contains the star or is the last rank in that direction.                *)
C25_StarRankSendsNothing ==
    [][\A r \in RayRanks :
          IF rpc[r] = "send" /\ rpc'[r] = "rates"
          THEN /\ C25_SendsBoundary(r)
               /\ C25_SentTo(r) =
                    IF Core(star, r) = "HERE" THEN {}
                    ELSE IF Core(star, r) = "LEFT" THEN {r + 1} \cap RayRanks
                    ELSE {r - 1} \cap RayRanks
          ELSE C25_SentTo(r) = {}]_vars

(* C25: after its walk a rank sends its boundary column densities away     *)
(* from the star: to rank+1 if the star is on its left, to rank-1 if the   *)
(* star is on its right, to both if it contains the star; a send that      *)
(* would leave the global edge is omitted, and no rank sends at any other  *)
(* point.                                                                  *)
C25_SendsAwayFromStar ==
    [][\A r \in RayRanks :
          IF rpc[r] = "send" /\ rpc'[r] = "rates"
          THEN /\ C25_SendsBoundary(r)
               /\ C25_SentTo(r) =
                    IF Core(star, r) = "HERE" THEN {r - 1, r + 1} \cap RayRanks
                    ELSE IF Core(star, r) = "LEFT" THEN {r + 1} \cap RayRanks
                    ELSE {r - 1} \cap RayRanks
          ELSE C25_SentTo(r) = {}]_vars

(* the rank that holds the star, between two others, has sent to both; the *)
(* last rank has finished its sweep and sent nothing                       *)
C25_Witness ==
    /\ StarRank(star) = 1
    /\ rpc[1] = "rates"
    /\ chan[<< 1, 0 >>] # << >>
    /\ chan[<< 1, NProcs - 1 >>] # << >>
    /\ chan[<< 1, 0 >>] # chan[<< 1, NProcs - 1 >>]

(* a cell of CausalNonWind above the switch that integrate(dtime) sub-cycles *)
SubcyclesCell(c, dtime) ==
    /\ ~tcell[c].wind
    /\ ~BelowSwitch(tcell[c])
    /\ dtime > SubcycleDt(tcell[c])

(* C26: a cell that integrate(dt) sub-cycles (dt > dt_i) takes              *)
(* n_steps = ceil(dt/dt_i) >= 2 micro-steps, the initial one and n_steps-1  *)
(* passes of the loop, each over dt/n_steps, so that together they cover dt. *)
C26_MicroStepsCoverDt ==
    [][(ThermoIntegrate /\ m_isSubcycling) =>
          \A c \in ThermoCells :
              SubcyclesCell(c, tstep') =>
                  LET dti == SubcycleDt(tcell[c])
                      n == (tcell'[c].evals - tcell[c].evals) + 1
                  IN  /\ n >= 2
                      /\ (n - 1) * dti < tstep' /\ tstep' <= n * dti
                      /\ n * Rate2dpre(tcell[c], tstep') = tstep' * tcell[c].gm1]_vars

(* pressure p respects both floors of the cell *)
C27_AboveFloors(cell, p) == p >= pfloor /\ Temperature(p) >= cell.T_min

(* C27: in integrate with sub-cycling the running pressure respects pfloor  *)
(* and T_min after the initial step and after every pass of the loop, and   *)
(* so does the pressure that the emitted T[RATE] gives when it is applied   *)
(* over dt.                                                                *)
C27_PressureNeverBelowFloors ==
    [][(ThermoIntegrate /\ m_isSubcycling) =>
          \A c \in ThermoCells :
              (~tcell[c].wind /\ ~BelowSwitch(tcell[c])) =>
                  LET cell == tcell[c]
                      r2d == Rate2dpre(cell, tstep')
                      first == FixedPressure(cell, cell.PRE + cell.RATE * r2d)
                  IN  /\ \A n \in 0..SubcyclePasses(cell, tstep') :
                            C27_AboveFloors(cell, Subcycled(cell, first, n, r2d))
                      /\ C27_AboveFloors(cell, pnew'[c])
                      /\ C27_AboveFloors(cell,
                            cell.PRE + tcell'[c].RATE * cell.gm1 * tstep')]_vars

(* the floored U of one explicit advance of u over dtime with the tendency  *)
(* taken from pressure q                                                    *)
C28_Advance(u, q, dtime) ==
    LET v == u + dtime * TendencyFromQ(q) IN IF v < 1 THEN 1 ELSE v

(* the half-step U of a step that starts from u *)
C28_HalfStepU(u, dtime) == C28_Advance(u, PrimitiveFromU(u), dtime \div 2)

(* C28: in hydroStep W holds the start-of-step U from the predictor on, the *)
(* predictor leaves the start U advanced by dt/2, the corrector takes Q     *)
(* from that half-step U, and the U the step leaves is the start U advanced *)
(* by the full dt with the tendency of the half-step Q, then floored:       *)
(* nothing of the predictor's increment is left in it.                      *)
C28_CorrectorRestartsFromSnapshot ==
    /\ hyd.pc \in {"corrector", "done"} => hyd.W = hyd.U0
    /\ hyd.pc = "corrector" => hyd.U = C28_HalfStepU(hyd.U0, hyd.dt)
    /\ hyd.pc = "done" =>
          /\ hyd.Q = PrimitiveFromU(C28_HalfStepU(hyd.U0, hyd.dt))
          /\ hyd.U = C28_Advance(hyd.U0, hyd.Q, hyd.dt)

(* a finished step whose half-step tendency differs in sign from the one at *)
(* the start, whose result is above the floor, and which differs from a     *)
(* full step taken from the half-step U                                     *)
C28_Witness ==
    /\ hyd.pc = "done"
    /\ hyd.U > 1
    /\ TendencyFromQ(hyd.Q) < 0
    /\ TendencyFromQ(PrimitiveFromU(hyd.U0)) > 0
    /\ hyd.U # C28_Advance(C28_HalfStepU(hyd.U0, hyd.dt), hyd.Q, hyd.dt)

(* the step is a subStep of a multi-component sweep, not an external quit *)
C31_IsSubStep ==
    /\ pc = "step"
    /\ Len(activeComponents) > 1
    /\ trace' # trace \/ pc' = "fatal"

(* C31: a subStep of the sweep first runs checkValues; only the one at      *)
(* sweep position 0 skips globalQfromU, fixPrimitives and                   *)
(* preTimeStepCalculations, every other runs them in that order; then come  *)
(* integrate with updateSourceTerms, advSolution and fixSolution in that    *)
(* order, and checkValues again.                                            *)
C31_SubStepOrder ==
    [][C31_IsSubStep =>
          LET n == Len(activeComponents)
              comp == activeComponents[((SweepIndex(k, n) + stepCounter) % n) + 1]
              ready == IF k = 0 THEN cells ELSE fixPrimitives(globalQfromU(cells))
          IN  IF checkValues(cells)
              THEN pc' = "fatal" /\ cells' = cells /\ trace' = trace
              ELSE /\ \E udot \in UdotChoices(comp) :
                         cells' = fixSolution(advSolution(Integrated(ready, udot)))
                   /\ checkValues(cells') <=> pc' = "fatal"
                   /\ k > 0 => (comp \in prep.missed <=> comp \in prep'.missed)
                   /\ integrated' = Append(integrated, comp)]_vars

(* a three-component sweep has finished: five sub-steps, of which only the  *)
(* first went without its preTimeStepCalculations in subStep                *)
C31_Witness ==
    /\ Len(activeComponents) = 3
    /\ pc = "ret"
    /\ Len(trace) = 5
    /\ Len(integrated) = 5
    /\ ~checkValues(cells)
    /\ prep.missed \subseteq {trace[1].comp}

RECURSIVE C32_TwiceTime(_, _)
(* twice the fraction of dt for which the sub-steps of tr integrate comp *)
C32_TwiceTime(tr, comp) ==
    IF tr = << >> THEN 0
    ELSE (IF Head(tr).comp = comp THEN Head(tr).h2 ELSE 0) + C32_TwiceTime(Tail(tr), comp)

(* the component at the last forward position of outer step s when          *)
(* stepCounter is advanced once in every outer step from 0                  *)
C32_Central(s) ==
    activeComponents[((Len(activeComponents) - 1 + s) % Len(activeComponents)) + 1]

(* C32: when a multi-component sweep has run, every active component has    *)
(* been integrated for dt in all: the one at the last forward position in   *)
(* one sub-step of dt, every other in two sub-steps of dt/2; the component   *)
(* at that position is the one the count of outer steps selects, so that    *)
(* any n consecutive outer steps put each component there once.             *)
C32_EveryComponentGetsDt ==
    (Len(activeComponents) > 1 /\ pc = "ret") =>
        LET n == Len(activeComponents)
        IN  /\ Len(trace) = 2 * n - 1
            /\ \A j \in 1..n :
                  LET comp == activeComponents[j]
                      mine == {i \in 1..Len(trace) : trace[i].comp = comp}
                  IN  /\ C32_TwiceTime(trace, comp) = 2
                      /\ IF comp = trace[n].comp
                         THEN mine = {n} /\ trace[n].h2 = 2
                         ELSE Cardinality(mine) = 2 /\ \A i \in mine : trace[i].h2 = 1
            /\ trace[n].comp = C32_Central(steps + 1)
            /\ \A s0 \in 1..MaxSteps :
                  {C32_Central(s) : s \in s0..(s0 + n - 1)}
                      = {activeComponents[j] : j \in 1..n}

(* the third outer step of a three-component run has finished its sweep:    *)
(* the three steps have put three different components in the middle        *)
C32_Witness ==
    /\ Len(activeComponents) = 3
    /\ pc = "ret"
    /\ steps = 2
    /\ trace[3].comp = activeComponents[3]
    /\ C32_Central(1) # C32_Central(2)
    /\ C32_Central(2) # C32_Central(3)
    /\ C32_Central(1) # C32_Central(3)

(* C33: updateSourceTerms adds T[RATE] to UDOT[PRE] and zeroes T[RATE] and  *)
(* T[HEAT] in every cell of CausalNonWind, so that a second call would add  *)
(* nothing; and the T[RATE] and T[HEAT] a thermodynamics sub-step starts    *)
(* from are those preTimeStepCalculations computes from the Q of the cell,  *)
(* not what an earlier updateSourceTerms left.                              *)
C33_RateAppliedOnce ==
    [][/\ ThermoUpdateSourceTerms =>
            \A c \in ThermoCells :
                IF tcell[c].wind THEN tcell'[c] = tcell[c]
                ELSE /\ tcell'[c].UDOT = tcell[c].UDOT + tcell[c].RATE
                     /\ tcell'[c].RATE = 0
                     /\ tcell'[c].HEAT = 0
                     /\ updateSourceCell(tcell'[c]).UDOT = tcell'[c].UDOT
       /\ ThermoIntegrate =>
            \A c \in ThermoCells :
                ~tcell[c].wind =>
                    /\ tcell[c].RATE = preTimeStepCell([tcell[c] EXCEPT !.RATE = 0, !.HEAT = 0]).RATE
                    /\ tcell[c].HEAT = preTimeStepCell([tcell[c] EXCEPT !.RATE = 0, !.HEAT = 0]).HEAT
                    /\ tcell[c].UDOT = 0]_vars

(* in the second outer step a rate has been computed again and applied:     *)
(* UDOT holds it once, T[RATE] and T[HEAT] are spent                        *)
C33_Witness ==
    /\ tpc = "hydro"
    /\ tround = 1
    /\ \E c \in ThermoCells :
          /\ ~tcell[c].wind
          /\ tcell[c].UDOT # 0
          /\ tcell[c].RATE = 0
          /\ tcell[c].HEAT = 0

(* C34: fillHeatingArrays writes H[] and nothing else of a cell: Q (PRE,     *)
(* HII, ADV), U, UDOT, T[RATE], T[HEAT] and the cell's constants are as     *)
(* before, in cells above and below the switch and in wind cells; the       *)
(* timestep and the clock of the run are untouched.                         *)
C34_FillHeatingArraysOnlyWritesH ==
    [][ThermoFill =>
          /\ \A c \in ThermoCells :
                /\ tcell'[c] = [tcell[c] EXCEPT !.H = tcell'[c].H,
                                                !.evals = tcell'[c].evals]
                /\ tcell[c].wind => tcell'[c] = tcell[c]
          /\ UNCHANGED << tdt, tstep, pnew, tround, currentTime, stepCounter, cells >>]_vars

(* fillHeatingArrays has filled the heating of a cell above the switch at   *)
(* start-up and left its pressure and energy as they were                   *)
C34_Witness ==
    /\ tpc = "pre"
    /\ tround = 0
    /\ \E c \in ThermoCells :
          /\ ~tcell[c].wind
          /\ tcell[c].H.CRH > 0
          /\ tcell[c].H.NMC < 0
          /\ tcell[c].PRE > 0 /\ tcell[c].UPRE > 0
          /\ tcell[c].RATE = 0

(* a is a prefix of b *)
C35_Prefix(a, b) == Len(a) <= Len(b) /\ SubSeq(b, 1, Len(a)) = a

(* rank r waits in a collective to which every rank has given *)
C35_WaitIsOver(r) ==
    /\ mpi.pc[r] = "guard" => AllGiven(mpi.gv, Len(mpi.gv[r]))
    /\ mpi.pc[r] = "minimum" => AllGiven(mpi.given, Len(mpi.given[r]))

====
